---- MODULE Spec2Model ----
(***************************************************************************)
(* A model of the agentic market research orchestrator:                    *)
(*   agentic/agent_loop.py  _validate_plan, pick_top_candidates, run_once  *)
(*   agentic/planner.py     Planner.plan                                   *)
(*   agentic/tools.py       Tools                                          *)
(*   agentic/memory.py      Memory                                         *)
(*                                                                         *)
(* JSON values coming from the planner are untyped in the source; here a   *)
(* raw value is a record carrying its kind (k) next to its payload, so     *)
(* that Python's conversions (int(), str(), "x or default", .strip(),      *)
(* .upper()) can be modelled by what they do on each kind, including the   *)
(* exceptions they raise.                                                  *)
(***************************************************************************)
EXTENDS Integers, Sequences, FiniteSets, TLC

VARIABLES
    pc,           \* position of run_once: the stage it is about to perform
    failure,      \* what made run_once raise ("none" while it has not)
    universe,     \* run_once argument: the symbols of the run
    runDays,      \* run_once argument days: the horizon
    cfgMaxSteps,  \* config.max_steps, handed to the Planner
    llm,          \* what the planner model answered
    rawPlan,      \* what Planner.plan returned (untrusted)
    plan,         \* plan["steps"] after _validate_plan
    idx,          \* Execute: index of the next planned step
    executed,     \* steps_executed
    calls,        \* the tool invocations made so far, each with how it ended
    artifacts,    \* RunArtifacts
    queue,        \* symbols the loop of the current stage has still to visit
    rmode,        \* which branch Reflect took: "a", "b" or "none"
    picks,        \* the picks of the report
    runJson,      \* the run.json this run wrote
    reportMd,     \* the report.md of this run was written
    memFile,      \* reports/memory.jsonl, one record per line
    today,        \* dt.date.today()
    dpath,        \* the directory of the run: memory.path_for_date() at its start
    reportsDir,   \* reports/<date>/run.json for each date: the run that wrote it, 0 if none
    runNo,        \* the number of the run in progress (runs are numbered as they start)
    completed,    \* how many runs have returned their report
    readOut,      \* what the last Memory.recent / Memory.last_best_params call returned
    apps,         \* the Memory.append calls in progress, one per appending process
    atomicAppend, \* whether the platform appends to a file opened with "a" in one step
    series,       \* the price series handed to the function under study
    args,         \* the function under study and its other arguments
    market,       \* what the collaborators of that function answer
    result        \* what the function returned, or what it raised

\* ------------------------------------------------------------------------
\* Program constants
\* ------------------------------------------------------------------------
ALLOWED_TOOLS == {"screen", "analyze", "optimize_backtest", "backtest"}
MAX_PLAN_STEPS == 6
MAX_SYMBOLS == 50
MAX_GRID == 8

\* ------------------------------------------------------------------------
\* Small helpers
\* ------------------------------------------------------------------------
Min2(a, b) == IF a < b THEN a ELSE b
Max2(a, b) == IF a > b THEN a ELSE b
\* Python's xs[:n] for n >= 0
Take(xs, n) == SubSeq(xs, 1, Min2(n, Len(xs)))
\* a clamp that forgets the lower bound: min(x, hi)
ClampUpperOnly(x, lo, hi) == Min2(x, hi)
\* max(lo, min(x, hi))
Clamp(x, lo, hi) == Max2(lo, Min2(x, hi))

SetMin(S) == CHOOSE x \in S : \A y \in S : x <= y
RECURSIVE SortedOfSet(_)
\* sorted(set(xs)) for a set of integers
SortedOfSet(S) == IF S = {} THEN <<>>
                  ELSE <<SetMin(S)>> \o SortedOfSet(S \ {SetMin(S)})

\* ------------------------------------------------------------------------
\* Python string conversions, on the strings the model uses
\* ------------------------------------------------------------------------
\* str.upper()
upper(s) ==
    CASE s = "aapl" -> "AAPL"
      [] s = "msft" -> "MSFT"
      [] s = "Nvda" -> "NVDA"
      [] s = "None" -> "NONE"
      [] OTHER -> s

\* str.strip()
strip(s) ==
    CASE s = " screen " -> "screen"
      [] s = "backtest " -> "backtest"
      [] s = "  " -> ""
      [] OTHER -> s

\* ------------------------------------------------------------------------
\* Raw (planner supplied) values.  k is the kind of JSON value found under
\* the key:
\*   numbers   "missing" | "int" (n) | "numstr" (a digit string, n) | "bad"
\*             ("abc", null, a list: int()/float() raise)
\*   strings   "missing" | "str" (s) | "null"
\*   lists     "missing" | "list" (l) | "bad" (a number: not iterable)
\* ------------------------------------------------------------------------
MissingN == [k |-> "missing", n |-> 0]
IntN(n) == [k |-> "int", n |-> n]
NumStrN(n) == [k |-> "numstr", n |-> n]
BadN == [k |-> "bad", n |-> 0]

MissingS == [k |-> "missing", s |-> ""]
StrS(s) == [k |-> "str", s |-> s]
NullS == [k |-> "null", s |-> ""]

MissingL == [k |-> "missing", l |-> <<>>]
ListL(l) == [k |-> "list", l |-> l]
BadL == [k |-> "bad", l |-> <<>>]

\* int(args.get(key, default)) / float(args.get(key, default)): does it raise?
Converts(v) == v.k \in {"missing", "int", "numstr"}
\* ... and its value when it does not
NumOf(v, default) == IF v.k = "missing" THEN default ELSE v.n

\* str(args.get("symbol", "")).upper()
SymOf(v) == upper(IF v.k = "missing" THEN ""
                  ELSE IF v.k = "null" THEN "None" ELSE v.s)

\* (args.get(key) or default): a missing, null or empty list gives default
ListOr(v, default) == IF v.k = "list" /\ v.l # <<>> THEN v.l ELSE default

\* [int(v) for v in xs if lo <= int(v) <= hi]
RECURSIVE FilterRange(_, _, _)
FilterRange(xs, lo, hi) ==
    IF xs = <<>> THEN <<>>
    ELSE LET n == Head(xs).n
         IN (IF lo <= n /\ n <= hi THEN <<n>> ELSE <<>>)
            \o FilterRange(Tail(xs), lo, hi)

SeqRange(xs) == {xs[i] : i \in 1..Len(xs)}

\* round(x, 2) of a split held in thousandths: to the nearest hundredth,
\* a tie going to the even hundredth
Round2(x) ==
    LET q == x \div 10
        r == x % 10
    IN IF r < 5 THEN 10 * q
       ELSE IF r > 5 THEN 10 * (q + 1)
       ELSE IF q % 2 = 0 THEN 10 * q ELSE 10 * (q + 1)

\* every element of a raw list converts with int()
ListConverts(xs) == \A i \in 1..Len(xs) : Converts(xs[i])

\* ------------------------------------------------------------------------
\* Raw steps.  A raw step is [obj, tool, args]:
\*   obj    FALSE when the element of "steps" is not a JSON object
\*   tool   [k, s], k = "missing" (absent, null or ""), "str", or "num"
\*          (a truthy non-string, which has no .strip())
\*   args   [k, ...], k = "map", "missing" (absent, null or empty) or "bad"
\*          (a truthy non-mapping: dict() raises); the other fields are the
\*          raw values under the keys the sanitizers read
\* ------------------------------------------------------------------------
NoArgs == [k |-> "missing", symbol |-> MissingS, symbols |-> MissingL,
           days |-> MissingN, fast |-> MissingN, slow |-> MissingN,
           fast_values |-> MissingL, slow_values |-> MissingL,
           split |-> MissingN, top_k |-> MissingN]
EmptyMap == [NoArgs EXCEPT !.k = "map"]
BadArgs == [NoArgs EXCEPT !.k = "bad"]

RawStep(t, a) == [obj |-> TRUE, tool |-> [k |-> "str", s |-> t], args |-> a]
NonObjectStep == [obj |-> FALSE, tool |-> [k |-> "missing", s |-> ""], args |-> NoArgs]

\* dict(s.get("args") or {})
ArgsOf(s) == IF s.args.k = "map" THEN s.args ELSE NoArgs

\* (s.get("tool") or "").strip()
ToolOf(s) == IF s.tool.k = "str" THEN strip(s.tool.s) ELSE ""

Dropped == [st |-> "drop"]
Raised == [st |-> "raise"]
Kept(t, a) == [st |-> "keep", tool |-> t, args |-> a]

\* ------------------------------------------------------------------------
\* _validate_plan: per tool sanitation (agent_loop.py 36-86)
\* ------------------------------------------------------------------------
SanitizeScreen(a) ==
    IF a.symbols.k = "bad" \/ ~Converts(a.days) THEN Raised
    ELSE LET l == ListOr(a.symbols, <<>>)
             symbols == Take([i \in 1..Len(l) |-> upper(l[i])], MAX_SYMBOLS)
             days == Clamp(NumOf(a.days, 365), 60, 2000)
         IN Kept("screen", [symbols |-> symbols, days |-> days])

SanitizeAnalyze(a) ==
    IF ~Converts(a.days) THEN Raised
    ELSE LET sym == SymOf(a.symbol)
             days == Clamp(NumOf(a.days, 365), 60, 2000)
         IN IF sym = "" THEN Dropped
            ELSE Kept("analyze", [symbol |-> sym, days |-> days])

SanitizeOptimize(a) ==
    LET fv == ListOr(a.fast_values, <<IntN(10), IntN(20), IntN(50)>>)
        sv == ListOr(a.slow_values, <<IntN(100), IntN(150), IntN(200), IntN(250)>>)
    IN IF \/ ~Converts(a.days)
          \/ a.fast_values.k = "bad" \/ ~ListConverts(fv)
          \/ a.slow_values.k = "bad" \/ ~ListConverts(sv)
          \/ ~Converts(a.split) \/ ~Converts(a.top_k)
       THEN Raised
       ELSE LET sym == SymOf(a.symbol)
                days == Clamp(NumOf(a.days, 1200), 200, 3000)
                fast_values == Take(SortedOfSet(SeqRange(FilterRange(fv, 2, 200))), MAX_GRID)
                slow_values == Take(SortedOfSet(SeqRange(FilterRange(sv, 5, 400))), MAX_GRID)
                split == Round2(Clamp(NumOf(a.split, 700), 500, 900))
                top_k == Clamp(NumOf(a.top_k, 5), 1, 10)
            IN IF sym = "" THEN Dropped
               ELSE Kept("optimize_backtest",
                         [symbol |-> sym, days |-> days,
                          fast_values |-> fast_values, slow_values |-> slow_values,
                          split |-> split, top_k |-> top_k])

\* the backtest sanitation without the fast >= slow test
SanitizeBacktestUnordered(a) ==
    IF ~Converts(a.fast) \/ ~Converts(a.slow) \/ ~Converts(a.days) THEN Raised
    ELSE LET sym == SymOf(a.symbol)
         IN IF sym = "" THEN Dropped
            ELSE Kept("backtest",
                      [symbol |-> sym, fast |-> Clamp(NumOf(a.fast, 50), 2, 200),
                       slow |-> Clamp(NumOf(a.slow, 200), 5, 400),
                       days |-> Clamp(NumOf(a.days, 1200), 200, 3000)])

SanitizeBacktest(a) ==
    IF ~Converts(a.fast) \/ ~Converts(a.slow) \/ ~Converts(a.days) THEN Raised
    ELSE LET sym == SymOf(a.symbol)
             fast == NumOf(a.fast, 50)
             slow == NumOf(a.slow, 200)
             days == NumOf(a.days, 1200)
         IN IF sym = "" \/ fast >= slow THEN Dropped
            ELSE Kept("backtest",
                      [symbol |-> sym, fast |-> Clamp(fast, 2, 200),
                       slow |-> Clamp(slow, 5, 400),
                       days |-> Clamp(days, 200, 3000)])

\* a whitelist test that only rejects the empty name
AllowedAnyName(t) == t # ""
\* The whitelist test (agent_loop.py 29-32)
Allowed(t) == t \in ALLOWED_TOOLS

\* One iteration of the loop body up to the dedup test (agent_loop.py 29-86)
SanitizeStep(s) ==
    IF ~s.obj \/ s.tool.k = "num" THEN Raised
    ELSE LET t == ToolOf(s)
         IN IF ~Allowed(t) THEN Dropped
            ELSE IF s.args.k = "bad" THEN Raised
            ELSE CASE t = "screen" -> SanitizeScreen(ArgsOf(s))
                   [] t = "analyze" -> SanitizeAnalyze(ArgsOf(s))
                   [] t = "optimize_backtest" -> SanitizeOptimize(ArgsOf(s))
                   [] t = "backtest" -> SanitizeBacktest(ArgsOf(s))
                   [] OTHER -> Kept(t, ArgsOf(s))

\* json.dumps(args, sort_keys=True): the (key, value) pairs in key order
KeyOrder(t) ==
    CASE t = "screen" -> <<"days", "symbols">>
      [] t = "analyze" -> <<"days", "symbol">>
      [] t = "optimize_backtest" ->
            <<"days", "fast_values", "slow_values", "split", "symbol", "top_k">>
      [] t = "backtest" -> <<"days", "fast", "slow", "symbol">>
      [] OTHER -> <<"days", "fast", "fast_values", "k", "slow", "slow_values",
                    "split", "symbol", "symbols", "top_k">>
Dumps(t, a) == [i \in 1..Len(KeyOrder(t)) |-> <<KeyOrder(t)[i], a[KeyOrder(t)[i]]>>]

\* a key that leaves the arguments out
StepKeyToolOnly(t, a) == <<t>>
\* key = (t, json.dumps(args, sort_keys=True))
StepKey(t, a) == <<t, Dumps(t, a)>>

\* a loop over all the raw steps
ConsideredAll(steps) == steps
\* The steps the loop looks at: steps[:MAX_PLAN_STEPS]
Considered(steps) == Take(steps, MAX_PLAN_STEPS)

\* The for loop of _validate_plan from index i on, with clean and seen as
\* built so far (agent_loop.py 28-93).  seen is kept as a sequence of keys.
RECURSIVE ValidateLoop(_, _, _, _)
ValidateLoop(steps, i, clean, seen) ==
    IF i > Len(steps) THEN [raised |-> FALSE, steps |-> clean]
    ELSE LET r == SanitizeStep(steps[i])
         IN IF r.st = "raise" THEN [raised |-> TRUE, steps |-> <<>>]
            ELSE IF r.st = "drop" THEN ValidateLoop(steps, i + 1, clean, seen)
            ELSE LET key == StepKey(r.tool, r.args)
                 IN IF \E j \in 1..Len(seen) : seen[j] = key
                    THEN ValidateLoop(steps, i + 1, clean, seen)
                    ELSE ValidateLoop(steps, i + 1,
                                      Append(clean, [tool |-> r.tool, args |-> r.args]),
                                      Append(seen, key))

\* ------------------------------------------------------------------------
\* Raw plans: [kind, steps], kind the JSON type of the planner's value and
\* steps = [k, l] what is under "steps": "list" (l), "missing" (absent, null
\* or empty), "str" (a non-empty string) or "num" (a non-zero number)
\* ------------------------------------------------------------------------
PlanOf(l) == [kind |-> "object", steps |-> [k |-> "list", l |-> l]]

\* list(plan.get("steps") or []): raises unless plan is an object and the
\* value is iterable; iterating a string yields its characters
StepsRaises(p) == p.kind # "object" \/ p.steps.k = "num"
StepsOf(p) ==
    CASE p.steps.k = "list" -> p.steps.l
      [] p.steps.k = "str" -> <<NonObjectStep>>
      [] OTHER -> <<>>

\* _validate_plan(plan)
ValidatePlan(p) ==
    IF StepsRaises(p) THEN [raised |-> TRUE, steps |-> <<>>]
    ELSE ValidateLoop(Considered(StepsOf(p)), 1, <<>>, <<>>)

\* ------------------------------------------------------------------------
\* Inputs of _validate_plan
\* ------------------------------------------------------------------------
MaxRawSteps == 7      \* longest raw plan built from LongPool
MaxRichSteps == 3     \* longest raw plan built from DedupPool

ScreenArgs(symbols, days) == [EmptyMap EXCEPT !.symbols = symbols, !.days = days]
AnalyzeArgs(symbol, days) == [EmptyMap EXCEPT !.symbol = symbol, !.days = days]
BacktestArgs(symbol, fast, slow, days) ==
    [EmptyMap EXCEPT !.symbol = symbol, !.fast = fast, !.slow = slow, !.days = days]
OptimizeArgs(symbol, days, fv, sv, split, top_k) ==
    [EmptyMap EXCEPT !.symbol = symbol, !.days = days, !.fast_values = fv,
                     !.slow_values = sv, !.split = split, !.top_k = top_k]

Ticker(i) == <<"AAPL", "msft", "Nvda">>[(i % 3) + 1]
Tickers(n) == [i \in 1..n |-> Ticker(i)]

\* Steps for long plans: the steps of the planner guardrail test and a valid
\* backtest
LongPool ==
    { RawStep("screen", ScreenArgs(ListL(<<"AAPL">>), IntN(365))),
      RawStep("delete_db", EmptyMap),
      RawStep("backtest", BacktestArgs(StrS("AAPL"), IntN(10), IntN(100), IntN(1200))) }

\* MaxRawSteps pairwise different valid steps
DistinctPlan == [i \in 1..MaxRawSteps |->
                    RawStep("analyze", AnalyzeArgs(StrS("AAPL"), IntN(100 + i)))]

DaysVals == { MissingN, IntN(-5), IntN(59), IntN(60), IntN(199), IntN(200), IntN(365),
              IntN(2000), IntN(2001), IntN(3000), IntN(3001), NumStrN(90), BadN }
SymVals == { MissingS, StrS(""), StrS("aapl"), StrS("AAPL"), NullS }
SymbolsVals == { MissingL, ListL(<<>>), ListL(<<"aapl">>), ListL(<<"AAPL", "msft">>),
                 ListL(Tickers(MAX_SYMBOLS)), ListL(Tickers(MAX_SYMBOLS + 1)),
                 ListL(Tickers(MAX_SYMBOLS + 2)), BadL }
FastSlowVals == { MissingN, IntN(-3), IntN(1), IntN(2), IntN(3), IntN(4), IntN(5), IntN(6),
                  IntN(50), IntN(199), IntN(200), IntN(201), IntN(399), IntN(400),
                  IntN(401), IntN(500), BadN }
GridVals == { MissingL, ListL(<<>>), ListL(<<IntN(50), IntN(10), IntN(10)>>),
              ListL(<<IntN(1), IntN(2), IntN(4), IntN(5), IntN(200), IntN(201),
                      IntN(400), IntN(401)>>),
              ListL([i \in 1..(MAX_GRID + 2) |-> IntN(10 * (MAX_GRID + 3 - i))]),
              ListL(<<IntN(1), IntN(401)>>),
              ListL(<<IntN(20), BadN>>), BadL }
SplitVals == { MissingN, IntN(0), IntN(499), IntN(500), IntN(625), IntN(702), IntN(718), IntN(875),
               IntN(900), IntN(901), IntN(1000), BadN }
TopKVals == { MissingN, IntN(-1), IntN(0), IntN(1), IntN(10), IntN(11), BadN }

ToolVals == { [k |-> "str", s |-> "screen"], [k |-> "str", s |-> " screen "],
              [k |-> "str", s |-> "backtest "], [k |-> "str", s |-> "analyze"],
              [k |-> "str", s |-> "optimize_backtest"],
              [k |-> "str", s |-> "delete_db"], [k |-> "str", s |-> "  "],
              [k |-> "missing", s |-> ""], [k |-> "num", s |-> ""] }

\* Steps that collide or nearly collide after sanitation
DedupPool ==
    { RawStep("screen", ScreenArgs(ListL(<<"AAPL">>), IntN(365))),
      RawStep("screen", ScreenArgs(ListL(<<"aapl">>), MissingN)),
      RawStep(" screen ", ScreenArgs(ListL(<<"AAPL">>), IntN(30))),
      RawStep("analyze", AnalyzeArgs(StrS("AAPL"), IntN(365))),
      RawStep("analyze", AnalyzeArgs(StrS("aapl"), NumStrN(365))),
      RawStep("backtest", BacktestArgs(StrS("AAPL"), IntN(300), IntN(500), IntN(1200))),
      RawStep("backtest", BacktestArgs(StrS("AAPL"), IntN(200), IntN(400), MissingN)),
      RawStep("backtest", BacktestArgs(StrS("AAPL"), IntN(400), IntN(200), MissingN)),
      RawStep("optimize_backtest",
              OptimizeArgs(StrS("AAPL"), IntN(1200), MissingL, MissingL, MissingN, MissingN)),
      RawStep("optimize_backtest",
              OptimizeArgs(StrS("aapl"), MissingN,
                           ListL(<<IntN(50), IntN(20), IntN(10), IntN(1)>>),
                           MissingL, IntN(702), IntN(5))),
      RawStep("delete_db", EmptyMap),
      NonObjectStep }

SeqsUpTo(S, n) == UNION { [1..m -> S] : m \in 0..n }

\* The raw plans _validate_plan is applied to: long plans over LongPool, a
\* plan of pairwise different steps, single steps over the argument values
\* above, short plans over DedupPool, and plans that are no object or have
\* no list of steps
RawPlanInput(p) ==
    \/ \E l \in SeqsUpTo(LongPool, MaxRawSteps) : p = PlanOf(l)
    \/ p = PlanOf(DistinctPlan)
    \/ \E l \in SymbolsVals, d \in DaysVals :
          p = PlanOf(<<RawStep("screen", ScreenArgs(l, d))>>)
    \/ \E s \in SymVals, d \in DaysVals :
          p = PlanOf(<<RawStep("analyze", AnalyzeArgs(s, d))>>)
    \/ \E s \in {StrS(""), StrS("aapl")}, f \in FastSlowVals, sl \in FastSlowVals,
          d \in {MissingN, IntN(199), IntN(3001)} :
          p = PlanOf(<<RawStep("backtest", BacktestArgs(s, f, sl, d))>>)
    \/ \E s \in {MissingS, StrS("aapl")}, d \in {MissingN, IntN(199), IntN(3001)},
          g \in GridVals, sp \in SplitVals, k \in TopKVals :
          p = PlanOf(<<RawStep("optimize_backtest", OptimizeArgs(s, d, g, g, sp, k))>>)
    \/ \E t \in ToolVals,
          a \in {NoArgs, BadArgs, EmptyMap,
                 BacktestArgs(StrS("AAPL"), IntN(10), IntN(100), IntN(1200))} :
          p = PlanOf(<<[obj |-> TRUE, tool |-> t, args |-> a]>>)
    \/ \E l \in SeqsUpTo(DedupPool, MaxRichSteps) : p = PlanOf(l)
    \/ \E kd \in {"object", "array", "string", "number", "null"},
          sk \in {"missing", "str", "num"} :
          p = [kind |-> kd, steps |-> [k |-> sk, l |-> <<>>]]

\* ------------------------------------------------------------------------
\* Tool results and RunArtifacts
\* ------------------------------------------------------------------------
MIN_CONF == 60          \* confidences are held in hundredths
MaxBestFast == 2        \* grid values an optimization answer draws best from
MaxBestSlow == 1
\* confidences a signal engine answer may carry
ConfVals == {55, 60, 70}

\* MarketAgent.analyze: the recommendation is a threshold function of overall
\* (agent.py 120); one is the number that stands for 1.0
RecommendBuyAtSixty(overall, one) ==
    IF overall * 100 >= 60 * one THEN "BUY"
    ELSE IF overall * 100 > 40 * one THEN "HOLD" ELSE "SELL"
RecommendOf(overall, one) ==
    IF overall * 100 > 60 * one THEN "BUY"
    ELSE IF overall * 100 > 40 * one THEN "HOLD" ELSE "SELL"
Recommend(conf) == RecommendOf(conf, 100)

\* A dict keyed by symbol, in insertion order: a sequence of [k, v]
DictHas(d, key) == \E i \in 1..Len(d) : d[i].k = key
DictGet(d, key) == d[CHOOSE i \in 1..Len(d) : d[i].k = key].v
\* d[key] = v: an existing key keeps its position
DictPut(d, key, v) ==
    IF DictHas(d, key)
    THEN [i \in 1..Len(d) |-> IF d[i].k = key THEN [k |-> key, v |-> v] ELSE d[i]]
    ELSE Append(d, [k |-> key, v |-> v])
DictKeys(d) == [i \in 1..Len(d) |-> d[i].k]

NoArtifacts == [screen |-> [present |-> FALSE, results |-> <<>>],
                analysis |-> <<>>, optimizations |-> <<>>, backtests |-> <<>>]

\* sorted(items, key=confidence, reverse=True): stable, so rows of equal
\* confidence keep their order.  Insertion of one row into a sorted list:
RECURSIVE InsertByConf(_, _)
InsertByConf(row, sorted) ==
    IF sorted = <<>> THEN <<row>>
    ELSE IF Head(sorted).confidence >= row.confidence
         THEN <<Head(sorted)>> \o InsertByConf(row, Tail(sorted))
         ELSE <<row>> \o sorted
RECURSIVE SortByConf(_)
SortByConf(rows) ==
    IF rows = <<>> THEN <<>>
    ELSE InsertByConf(rows[Len(rows)], SortByConf(SubSeq(rows, 1, Len(rows) - 1)))

\* the candidates without the cut at limit
pick_all_candidates(screen, limit) ==
    LET items == SortByConf(screen.results)
    IN [i \in 1..Len(items) |-> items[i].symbol]

\* pick_top_candidates(screen_result, limit)
pick_top_candidates(screen, limit) ==
    LET items == Take(SortByConf(screen.results), limit)
    IN [i \in 1..Len(items) |-> items[i].symbol]

\* ------------------------------------------------------------------------
\* The tool service as seen through Tools (tools.py 12-40, main.py)
\* An outcome is [k, v]: k = "ok" with the JSON answer v, "http" for a
\* failure status (Tools raises ToolError), "exc" for a timeout or
\* connection failure (requests raises, not a ToolError)
\* ------------------------------------------------------------------------
Failures == {[k |-> "http", v |-> <<>>], [k |-> "exc", v |-> <<>>]}
Ok(v) == [k |-> "ok", v |-> v]

\* MarketAgent.screen over POST /screen: one row per requested symbol, the
\* same symbol scoring the same, ordered by descending confidence
ScreenAnswers(symbols) ==
    { [results |-> SortByConf([i \in 1..Len(symbols) |->
                      [symbol |-> upper(symbols[i]),
                       recommendation |-> Recommend(c[symbols[i]]),
                       confidence |-> c[symbols[i]]]])] :
        c \in [SeqRange(symbols) -> ConfVals] }

\* GET /analyze/{symbol}: days outside [60, 2000] is refused
AnalyzeOutcomes(symbol, d) ==
    Failures \cup
    (IF d \in 60..2000
     THEN { Ok([symbol |-> upper(symbol), recommendation |-> Recommend(c), confidence |-> c]) :
              c \in ConfVals }
     ELSE {})

ScreenOutcomes(symbols, d) == Failures \cup { Ok(r) : r \in ScreenAnswers(symbols) }

\* need = max(slow, fast) + 5   (backtest.py 38)
Need(fast, slow) == Max2(slow, fast) + 5

\* the tests without the one on the order of the windows
RefusedShortOnly(n, fast, slow) == n < Need(fast, slow)
\* the two tests that open backtest_sma_cross (backtest.py 35-40)
Refused(n, fast, slow) == fast >= slow \/ n < Need(fast, slow)

\* series.rolling(window, min_periods=window): pandas refuses a negative
\* window with a ValueError
RollingRaises(window) == window < 0

\* the bars get_price_history may return for a symbol that has prices
HistoryBars == {100, 1000}

\* POST /backtest (main.py 90-130): backtest_sma_cross over the history of
\* the symbol; whatever it raises comes back as a failure status
BacktestOutcomes(symbol, fast, slow, d) ==
    Failures \cup
    { Ok([symbol |-> upper(symbol), params |-> [fast |-> fast, slow |-> slow]]) :
        n \in { h \in HistoryBars :
                  ~Refused(h, fast, slow) /\ ~RollingRaises(fast) /\ ~RollingRaises(slow) } }

\* POST /optimize_backtest: best is a pair of the grid with fast < slow,
\* here one of the first MaxBestFast fast and MaxBestSlow slow values
OptimizeOutcomes(symbol, d, fast_values, slow_values) ==
    Failures \cup
    { Ok([symbol |-> upper(symbol), best |-> [fast |-> fast_values[i], slow |-> slow_values[j]]]) :
        <<i, j>> \in { ij \in (1..Min2(MaxBestFast, Len(fast_values)))
                              \X (1..Min2(MaxBestSlow, Len(slow_values))) :
                         fast_values[ij[1]] < slow_values[ij[2]] } }

\* Tools.exec_step(step)
ExecOutcomes(step) ==
    LET a == step.args
    IN CASE step.tool = "screen" -> ScreenOutcomes(a.symbols, a.days)
         [] step.tool = "analyze" -> AnalyzeOutcomes(a.symbol, a.days)
         [] step.tool = "backtest" -> BacktestOutcomes(a.symbol, a.fast, a.slow, a.days)
         [] step.tool = "optimize_backtest" ->
               OptimizeOutcomes(a.symbol, a.days, a.fast_values, a.slow_values)
         [] OTHER -> {[k |-> "http", v |-> <<>>]}

ResultEntry(step, res) == [step |-> step, kind |-> "result", result |-> res]
ErrorEntry(step) == [step |-> step, kind |-> "error", result |-> <<>>]

\* artifacts after a planned step succeeded (agent_loop.py 134-145)
StoreArtifact(art, step, res) ==
    CASE step.tool = "screen" -> [art EXCEPT !.screen = [present |-> TRUE, results |-> res.results]]
      [] step.tool = "analyze" ->
            [art EXCEPT !.analysis = DictPut(@, step.args.symbol, res)]
      [] step.tool = "optimize_backtest" ->
            [art EXCEPT !.optimizations = DictPut(@, step.args.symbol, res)]
      [] step.tool = "backtest" ->
            [art EXCEPT !.backtests = DictPut(@, step.args.symbol, res)]
      [] OTHER -> art

\* ------------------------------------------------------------------------
\* Planner.plan (planner.py 11-26)
\* ------------------------------------------------------------------------
\* a default plan that leaves the horizon to the screen default
DefaultPlanNoDays(u, d) == PlanOf(<<RawStep("screen", ScreenArgs(ListL(u), MissingN))>>)
\* the plan substituted when the model call raises or answers no JSON
DefaultPlan(u, d) == PlanOf(<<RawStep("screen", ScreenArgs(ListL(u), IntN(d)))>>)

\* "steps" in plan: not defined on a number, a boolean or null
MembershipRaises(p) == p.kind \in {"number", "null"}

\* "steps" in plan and isinstance(plan["steps"], list)
HasStepList(p) == p.kind = "object" /\ p.steps.k = "list"

\* plan["steps"][:self.max_steps]: a slice bound that is a string is a
\* TypeError, whatever the length of the list
SliceRaises(p, m) == HasStepList(p) /\ m.k = "str"

\* plan["steps"] = plan["steps"][:self.max_steps]; [:None] is the whole list
TruncateSteps(p, m) ==
    IF HasStepList(p) /\ m.k = "int"
    THEN [p EXCEPT !.steps.l = Take(@, m.n)]
    ELSE p

\* the plan of tests/test_planner_guardrails.py
GuardrailTestPlan ==
    PlanOf(<<RawStep("screen", ScreenArgs(ListL(<<"AAPL">>), IntN(365))),
             RawStep("delete_db", EmptyMap),
             RawStep("screen", ScreenArgs(ListL(<<"AAPL">>), IntN(365)))>>)

\* ------------------------------------------------------------------------
\* Inputs of run_once
\* ------------------------------------------------------------------------
MEMORY_WINDOW == 50

\* a universe one symbol longer than a screen step may carry
LongUniverse == [i \in 1..(MAX_SYMBOLS + 1) |-> IF i <= MAX_SYMBOLS THEN "AAPL" ELSE "MSFT"]
Universes == { <<"AAPL", "MSFT">>, LongUniverse }
DaysInputs == {365, 30}
\* config.max_steps is os.getenv("MAX_STEPS"): None when the variable is
\* unset, the variable's text when it is set; a caller that builds its own
\* Config may give the integer the annotation asks for
MaxStepsInputs == { [k |-> "none", n |-> 0], [k |-> "str", n |-> 0], [k |-> "int", n |-> 2] }
\* a memory whose last record for AAPL holds a pair no backtest accepts
StaleMemFile ==
    <<[universe_size |-> 2, top_pick |-> "AAPL", top_conf |-> 70,
       best_params |-> [k |-> "map", fast |-> IntN(100), slow |-> IntN(20)]]>>
MemFiles ==
    { <<>>,
      <<[universe_size |-> 2, top_pick |-> "AAPL", top_conf |-> 70,
         best_params |-> [k |-> "map", fast |-> IntN(20), slow |-> IntN(100)]]>> }

\* what the planner model may answer: the call raises, the text is no JSON,
\* or it is JSON of some shape
PlannerPlans ==
    { PlanOf(<<RawStep("screen",
                       ScreenArgs(ListL(<<"AAPL", "msft", "aapl", "AAPL">>), IntN(365)))>>),
      GuardrailTestPlan,
      PlanOf(<<RawStep("screen", ScreenArgs(ListL(<<"AAPL">>), IntN(365))),
               RawStep("analyze", AnalyzeArgs(StrS("AAPL"), IntN(365))),
               RawStep("backtest", BacktestArgs(StrS("AAPL"), IntN(10), IntN(100), IntN(1200)))>>),
      PlanOf(<<RawStep("analyze", AnalyzeArgs(StrS("aapl"), IntN(365))),
               RawStep("optimize_backtest",
                       OptimizeArgs(StrS("AAPL"), IntN(1200), MissingL, MissingL,
                                    MissingN, MissingN)),
               RawStep("optimize_backtest",
                       OptimizeArgs(StrS("MSFT"), IntN(1200), MissingL, MissingL,
                                    MissingN, MissingN))>>),
      PlanOf(<<RawStep("backtest", BacktestArgs(StrS("MSFT"), IntN(50), IntN(200), MissingN)),
               RawStep("analyze", AnalyzeArgs(StrS("MSFT"), IntN(90)))>>),
      PlanOf(<<RawStep("analyze", AnalyzeArgs(StrS("AAPL"), IntN(365)))>>),
      PlanOf(<<RawStep("screen", ScreenArgs(ListL(<<"AAPL">>), BadN))>>),
      PlanOf(<<NonObjectStep>>),
      PlanOf(<<>>) }
    \cup { [kind |-> kd, steps |-> [k |-> "missing", l |-> <<>>]] :
              kd \in {"object", "array", "string", "number", "null"} }
    \cup { [kind |-> "object", steps |-> [k |-> sk, l |-> <<>>]] : sk \in {"str", "num"} }

LlmAnswers ==
    { [k |-> "raise", v |-> PlanOf(<<>>)], [k |-> "text", v |-> PlanOf(<<>>)] }
    \cup { [k |-> "json", v |-> p] : p \in PlannerPlans }

\* ------------------------------------------------------------------------
\* State machine
\* ------------------------------------------------------------------------
vars == <<pc, failure, universe, runDays, cfgMaxSteps, llm, rawPlan, plan, idx, executed,
          calls, artifacts, queue, rmode, picks, runJson, reportMd, memFile,
          today, dpath, reportsDir, runNo, completed, readOut, apps, atomicAppend,
          series, args, market, result>>

inputs == <<universe, runDays, cfgMaxSteps>>

\* what a step inside one run leaves alone: the date, the run's directory
\* and number, and the other processes
around == <<today, dpath, runNo, readOut, apps, atomicAppend, series, args, market, result>>

\* a call of one function of the signal engine, the backtester or the
\* optimizer, outside any run
bench == <<series, args, market, result>>

Raise(why) == pc' = "raised" /\ failure' = why

\* one invocation of a Tools method: the tool, the symbol (none for a
\* screen) and the kind of outcome
Called(tool, sym, o) == calls' = Append(calls, [tool |-> tool, symbol |-> sym, k |-> o.k])
StepSymbol(step) == IF step.tool = "screen" THEN "" ELSE step.args.symbol
\* an invocation made by Reflect (b), kept with the payload it sends
CalledWith(tool, sym, o, payload) ==
    calls' = Append(calls, [tool |-> tool, symbol |-> sym, k |-> o.k, payload |-> payload])
\* the payload of Tools.backtest and that of the default optimization
\* (split in thousandths)
BacktestPayload(sym, f, s, d) == [symbol |-> sym, fast |-> f, slow |-> s, days |-> d]
DefaultOptimization(sym, d) ==
    [symbol |-> sym, days |-> d, fast_values |-> <<10, 20, 50>>,
     slow_values |-> <<100, 150, 200, 250>>, split |-> 700, top_k |-> 5]

\* plan = planner.plan(goal, context)   (agent_loop.py 122)
Plan ==
    /\ pc = "plan"
    /\ \E answer \in LlmAnswers :
          LET p == IF answer.k = "json" THEN answer.v ELSE DefaultPlan(universe, runDays)
          IN /\ llm' = answer
             /\ IF MembershipRaises(p) \/ SliceRaises(p, cfgMaxSteps)
                THEN Raise("planner") /\ UNCHANGED rawPlan
                ELSE /\ rawPlan' = TruncateSteps(p, cfgMaxSteps)
                     /\ pc' = "validate"
                     /\ UNCHANGED failure
    /\ UNCHANGED <<inputs, around, reportsDir, completed, plan, idx, executed, calls, artifacts, queue, rmode, picks,
                   runJson, reportMd, memFile>>

\* plan = _validate_plan(plan)   (agent_loop.py 123)
Validate ==
    /\ pc = "validate"
    /\ LET r == ValidatePlan(rawPlan)
       IN /\ plan' = r.steps
          /\ IF r.raised THEN Raise("validate")
             ELSE pc' = "execute" /\ UNCHANGED failure
    /\ UNCHANGED <<inputs, around, reportsDir, completed, llm, rawPlan, idx, executed, calls, artifacts, queue, rmode, picks,
                   runJson, reportMd, memFile>>

\* an Execute loop that stops at the first failing step
ExecStepAborting ==
    /\ pc = "execute"
    /\ idx <= Len(plan)
    /\ \E o \in ExecOutcomes(plan[idx]) :
          /\ Called(plan[idx].tool, StepSymbol(plan[idx]), o)
          /\ CASE o.k = "ok" ->
                  /\ executed' = Append(executed, ResultEntry(plan[idx], o.v))
                  /\ artifacts' = StoreArtifact(artifacts, plan[idx], o.v)
                  /\ idx' = idx + 1
                  /\ UNCHANGED <<pc, failure>>
            [] o.k = "http" ->
                  /\ executed' = Append(executed, ErrorEntry(plan[idx]))
                  /\ idx' = Len(plan) + 1
                  /\ UNCHANGED <<pc, failure, artifacts>>
            [] o.k = "exc" ->
                  /\ Raise("tool")
                  /\ UNCHANGED <<idx, executed, artifacts>>
    /\ UNCHANGED <<inputs, around, reportsDir, completed, llm, rawPlan, plan, queue, rmode, picks, runJson, reportMd, memFile>>

\* One iteration of the Execute loop (agent_loop.py 130-149)
ExecStep ==
    /\ pc = "execute"
    /\ idx <= Len(plan)
    /\ \E o \in ExecOutcomes(plan[idx]) :
          /\ Called(plan[idx].tool, StepSymbol(plan[idx]), o)
          /\ CASE o.k = "ok" ->
                  /\ executed' = Append(executed, ResultEntry(plan[idx], o.v))
                  /\ artifacts' = StoreArtifact(artifacts, plan[idx], o.v)
                  /\ idx' = idx + 1
                  /\ UNCHANGED <<pc, failure>>
            [] o.k = "http" ->
                  /\ executed' = Append(executed, ErrorEntry(plan[idx]))
                  /\ idx' = idx + 1
                  /\ UNCHANGED <<pc, failure, artifacts>>
            [] o.k = "exc" ->
                  /\ Raise("tool")
                  /\ UNCHANGED <<idx, executed, artifacts>>
    /\ UNCHANGED <<inputs, around, reportsDir, completed, llm, rawPlan, plan, queue, rmode, picks, runJson, reportMd, memFile>>

\* The loop is over: "if artifacts.get("screen"): top_syms = ..." (152-153)
ExecDone ==
    /\ pc = "execute"
    /\ idx > Len(plan)
    /\ pc' = "auto"
    /\ queue' = IF artifacts.screen.present
                THEN pick_top_candidates(artifacts.screen, 3) ELSE <<>>
    /\ UNCHANGED <<inputs, around, reportsDir, completed, failure, llm, rawPlan, plan, idx, executed, calls, artifacts, rmode,
                   picks, runJson, reportMd, memFile>>

AutoStep(sym) == [tool |-> "analyze", args |-> [symbol |-> sym, days |-> runDays]]

\* One iteration of the Auto-analyze loop (agent_loop.py 154-163)
AutoAnalyze ==
    /\ pc = "auto"
    /\ queue # <<>>
    /\ LET sym == Head(queue)
       IN IF DictHas(artifacts.analysis, sym)
          THEN /\ queue' = Tail(queue)
               /\ UNCHANGED <<pc, failure, executed, calls, artifacts>>
          ELSE \E o \in AnalyzeOutcomes(sym, runDays) :
                  /\ Called("analyze", sym, o)
                  /\ CASE o.k = "ok" ->
                          /\ executed' = Append(executed, ResultEntry(AutoStep(sym), o.v))
                          /\ artifacts' = [artifacts EXCEPT !.analysis = DictPut(@, sym, o.v)]
                          /\ queue' = Tail(queue)
                          /\ UNCHANGED <<pc, failure>>
                    [] o.k = "http" ->
                          /\ executed' = Append(executed, ErrorEntry(AutoStep(sym)))
                          /\ queue' = Tail(queue)
                          /\ UNCHANGED <<pc, failure, artifacts>>
                    [] o.k = "exc" ->
                          /\ Raise("tool")
                          /\ UNCHANGED <<queue, executed, artifacts>>
    /\ UNCHANGED <<inputs, around, reportsDir, completed, llm, rawPlan, plan, idx, rmode, picks, runJson, reportMd, memFile>>

\* a read that returns every record of the file
recentWhole(file, n) == file

\* Memory.recent(n): lines[-n:]   (memory.py 15-20)
\* lines[-0:] is the whole list
recent(file, n) ==
    IF n = 0 \/ n >= Len(file) THEN file ELSE SubSeq(file, Len(file) - n + 1, Len(file))

Truthy(v) == v.k = "int" /\ v.n # 0

\* Memory.last_best_params(symbol)   (memory.py 29-35): [found, fast, slow]
last_best_params(file, symbol) ==
    LET recs == recent(file, MEMORY_WINDOW)
        hits == { i \in 1..Len(recs) :
                    /\ recs[i].top_pick = symbol
                    /\ recs[i].best_params.k = "map"
                    /\ Truthy(recs[i].best_params.fast)
                    /\ Truthy(recs[i].best_params.slow) }
    IN IF hits = {} THEN [found |-> FALSE, fast |-> 0, slow |-> 0]
       ELSE LET i == CHOOSE h \in hits : \A g \in hits : g <= h
            IN [found |-> TRUE, fast |-> recs[i].best_params.fast.n,
                slow |-> recs[i].best_params.slow.n]

\* a Reflect that does not look at the backtests the plan produced
AutoDoneAlways ==
    /\ pc = "auto"
    /\ queue = <<>>
    /\ pc' = "reflect"
    /\ IF artifacts.analysis # <<>>
       THEN IF artifacts.optimizations # <<>>
            THEN rmode' = "a" /\ queue' = DictKeys(artifacts.optimizations)
            ELSE rmode' = "b" /\ queue' = pick_top_candidates(artifacts.screen, 1)
       ELSE rmode' = "none" /\ queue' = <<>>
    /\ UNCHANGED <<inputs, around, reportsDir, completed, failure, llm, rawPlan, plan, idx, executed, calls, artifacts, picks,
                   runJson, reportMd, memFile>>

\* Auto-analyze is over; the tests that open Reflect (agent_loop.py 166-183)
AutoDone ==
    /\ pc = "auto"
    /\ queue = <<>>
    /\ pc' = "reflect"
    /\ IF artifacts.analysis # <<>> /\ artifacts.backtests = <<>>
       THEN IF artifacts.optimizations # <<>>
            THEN rmode' = "a" /\ queue' = DictKeys(artifacts.optimizations)
            ELSE rmode' = "b" /\ queue' = pick_top_candidates(artifacts.screen, 1)
       ELSE rmode' = "none" /\ queue' = <<>>
    /\ UNCHANGED <<inputs, around, reportsDir, completed, failure, llm, rawPlan, plan, idx, executed, calls, artifacts, picks,
                   runJson, reportMd, memFile>>

BacktestStep(sym, f, s, d) ==
    [tool |-> "backtest", args |-> [symbol |-> sym, fast |-> f, slow |-> s, days |-> d]]
SymbolOnlyStep(tool, sym) == [tool |-> tool, args |-> [symbol |-> sym]]
ReflectErrorStep == [tool |-> "reflect", args |-> <<>>]

\* a Reflect (a) that gives up at the first backtest that fails
ReflectAStops ==
    /\ pc = "reflect" /\ rmode = "a"
    /\ queue # <<>>
    /\ LET sym == Head(queue)
           best == DictGet(artifacts.optimizations, sym).best
           d == Max2(1000, runDays)
       IN \E o \in BacktestOutcomes(sym, best.fast, best.slow, d) :
             /\ Called("backtest", sym, o)
             /\ IF o.k = "ok"
                THEN /\ executed' = Append(executed,
                           ResultEntry(BacktestStep(sym, best.fast, best.slow, d), o.v))
                     /\ artifacts' = [artifacts EXCEPT !.backtests = DictPut(@, sym, o.v)]
                     /\ queue' = Tail(queue)
                ELSE /\ executed' = Append(executed, ErrorEntry(SymbolOnlyStep("backtest", sym)))
                     /\ queue' = <<>>
                     /\ UNCHANGED artifacts
    /\ UNCHANGED <<inputs, around, reportsDir, completed, pc, failure, llm, rawPlan, plan, idx, rmode, picks,
                   runJson, reportMd, memFile>>

\* Reflect (a): one optimization turned into a backtest (agent_loop.py 169-179)
ReflectA ==
    /\ pc = "reflect" /\ rmode = "a"
    /\ queue # <<>>
    /\ LET sym == Head(queue)
           best == DictGet(artifacts.optimizations, sym).best
           d == Max2(1000, runDays)
       IN \E o \in BacktestOutcomes(sym, best.fast, best.slow, d) :
             /\ Called("backtest", sym, o)
             /\ IF o.k = "ok"
                THEN /\ executed' = Append(executed,
                           ResultEntry(BacktestStep(sym, best.fast, best.slow, d), o.v))
                     /\ artifacts' = [artifacts EXCEPT !.backtests = DictPut(@, sym, o.v)]
                ELSE /\ executed' = Append(executed, ErrorEntry(SymbolOnlyStep("backtest", sym)))
                     /\ UNCHANGED artifacts
    /\ queue' = Tail(queue)
    /\ UNCHANGED <<inputs, around, reportsDir, completed, pc, failure, llm, rawPlan, plan, idx, rmode, picks,
                   runJson, reportMd, memFile>>

\* Reflect (b), remembered parameters: one backtest (agent_loop.py 185-191)
ReflectReuse ==
    /\ pc = "reflect" /\ rmode = "b"
    /\ queue # <<>>
    /\ LET sym == Head(queue)
           reuse == last_best_params(memFile, sym)
           d == Max2(1200, runDays)
       IN /\ reuse.found
          /\ \E o \in BacktestOutcomes(sym, reuse.fast, reuse.slow, d) :
                /\ CalledWith("backtest", sym, o, BacktestPayload(sym, reuse.fast, reuse.slow, d))
                /\ IF o.k = "ok"
                   THEN /\ executed' = Append(executed,
                              ResultEntry(BacktestStep(sym, reuse.fast, reuse.slow, d), o.v))
                        /\ artifacts' = [artifacts EXCEPT !.backtests = DictPut(@, sym, o.v)]
                   ELSE /\ executed' = Append(executed, ErrorEntry(ReflectErrorStep))
                        /\ UNCHANGED artifacts
    /\ queue' = Tail(queue)
    /\ UNCHANGED <<inputs, around, reportsDir, completed, pc, failure, llm, rawPlan, plan, idx, rmode, picks,
                   runJson, reportMd, memFile>>

\* a reflection that optimizes and leaves the backtest out
ReflectOptimizeOnly ==
    /\ pc = "reflect" /\ rmode = "b"
    /\ queue # <<>>
    /\ LET sym == Head(queue)
           req == DefaultOptimization(sym, Max2(1200, runDays))
       IN /\ ~last_best_params(memFile, sym).found
          /\ \E o \in OptimizeOutcomes(sym, req.days, req.fast_values, req.slow_values) :
                /\ CalledWith("optimize_backtest", sym, o, req)
                /\ IF o.k = "ok"
                   THEN /\ executed' = Append(executed,
                              ResultEntry(SymbolOnlyStep("optimize_backtest", sym), o.v))
                        /\ artifacts' = [artifacts EXCEPT !.optimizations = DictPut(@, sym, o.v)]
                   ELSE /\ executed' = Append(executed, ErrorEntry(ReflectErrorStep))
                        /\ UNCHANGED artifacts
    /\ queue' = Tail(queue)
    /\ UNCHANGED <<inputs, around, reportsDir, completed, pc, failure, llm, rawPlan, plan, idx,
                   rmode, picks, runJson, reportMd, memFile>>

\* Reflect (b), nothing remembered: the default optimization (192-200)
ReflectOptimize ==
    /\ pc = "reflect" /\ rmode = "b"
    /\ queue # <<>>
    /\ LET sym == Head(queue)
           req == DefaultOptimization(sym, Max2(1200, runDays))
       IN /\ ~last_best_params(memFile, sym).found
          /\ \E o \in OptimizeOutcomes(sym, req.days, req.fast_values, req.slow_values) :
                /\ CalledWith("optimize_backtest", sym, o, req)
                /\ IF o.k = "ok"
                   THEN /\ executed' = Append(executed,
                              ResultEntry(SymbolOnlyStep("optimize_backtest", sym), o.v))
                        /\ artifacts' = [artifacts EXCEPT !.optimizations = DictPut(@, sym, o.v)]
                        /\ pc' = "reflect_bt"
                        /\ UNCHANGED queue
                   ELSE /\ executed' = Append(executed, ErrorEntry(ReflectErrorStep))
                        /\ queue' = Tail(queue)
                        /\ UNCHANGED <<pc, artifacts>>
    /\ UNCHANGED <<inputs, around, reportsDir, completed, failure, llm, rawPlan, plan, idx, rmode, picks,
                   runJson, reportMd, memFile>>

\* Reflect (b): the backtest with the optimization's best pair (201-209)
ReflectBacktest ==
    /\ pc = "reflect_bt"
    /\ LET sym == Head(queue)
           best == DictGet(artifacts.optimizations, sym).best
           d == Max2(1200, runDays)
       IN \E o \in BacktestOutcomes(sym, best.fast, best.slow, d) :
             /\ CalledWith("backtest", sym, o, BacktestPayload(sym, best.fast, best.slow, d))
             /\ IF o.k = "ok"
                THEN /\ executed' = Append(executed,
                           ResultEntry(BacktestStep(sym, best.fast, best.slow, d), o.v))
                     /\ artifacts' = [artifacts EXCEPT !.backtests = DictPut(@, sym, o.v)]
                ELSE /\ executed' = Append(executed, ErrorEntry(ReflectErrorStep))
                     /\ UNCHANGED artifacts
    /\ pc' = "reflect"
    /\ queue' = Tail(queue)
    /\ UNCHANGED <<inputs, around, reportsDir, completed, failure, llm, rawPlan, plan, idx, rmode, picks,
                   runJson, reportMd, memFile>>

\* Reflect is over
ReflectDone ==
    /\ pc = "reflect"
    /\ queue = <<>>
    /\ pc' = "fallback"
    /\ UNCHANGED <<inputs, around, reportsDir, completed, failure, llm, rawPlan, plan, idx, executed, calls, artifacts, queue,
                   rmode, picks, runJson, reportMd, memFile>>

\* the test that opens Fallback (agent_loop.py 212-214)
FallbackDue ==
    /\ artifacts.backtests = <<>>
    /\ artifacts.screen.present
    /\ pick_top_candidates(artifacts.screen, 1) # <<>>

\* a Fallback whose failed backtest leaves no entry
FallbackSilent ==
    /\ pc = "fallback"
    /\ FallbackDue
    /\ LET sym == pick_top_candidates(artifacts.screen, 1)[1]
           d == Max2(1000, runDays)
       IN \E o \in BacktestOutcomes(sym, 50, 200, d) :
             /\ CalledWith("backtest", sym, o, BacktestPayload(sym, 50, 200, d))
             /\ IF o.k = "ok"
                THEN /\ executed' = Append(executed, ResultEntry(BacktestStep(sym, 50, 200, d), o.v))
                     /\ artifacts' = [artifacts EXCEPT !.backtests = DictPut(@, sym, o.v)]
                ELSE UNCHANGED <<executed, artifacts>>
    /\ pc' = "assemble"
    /\ UNCHANGED <<inputs, around, reportsDir, completed, failure, llm, rawPlan, plan, idx, queue, rmode, picks,
                   runJson, reportMd, memFile>>

\* a Fallback that tries the windows 20/50
FallbackFaster ==
    /\ pc = "fallback"
    /\ FallbackDue
    /\ LET sym == pick_top_candidates(artifacts.screen, 1)[1]
           d == Max2(1000, runDays)
       IN \E o \in BacktestOutcomes(sym, 20, 50, d) :
             /\ CalledWith("backtest", sym, o, BacktestPayload(sym, 20, 50, d))
             /\ IF o.k = "ok"
                THEN /\ executed' = Append(executed, ResultEntry(BacktestStep(sym, 20, 50, d), o.v))
                     /\ artifacts' = [artifacts EXCEPT !.backtests = DictPut(@, sym, o.v)]
                ELSE /\ executed' = Append(executed, ErrorEntry(SymbolOnlyStep("backtest", sym)))
                     /\ UNCHANGED artifacts
    /\ pc' = "assemble"
    /\ UNCHANGED <<inputs, around, reportsDir, completed, failure, llm, rawPlan, plan, idx, queue, rmode, picks,
                   runJson, reportMd, memFile>>

\* Fallback: the top screened symbol with 50/200 (agent_loop.py 215-222)
Fallback ==
    /\ pc = "fallback"
    /\ FallbackDue
    /\ LET sym == pick_top_candidates(artifacts.screen, 1)[1]
           d == Max2(1000, runDays)
       IN \E o \in BacktestOutcomes(sym, 50, 200, d) :
             /\ CalledWith("backtest", sym, o, BacktestPayload(sym, 50, 200, d))
             /\ IF o.k = "ok"
                THEN /\ executed' = Append(executed, ResultEntry(BacktestStep(sym, 50, 200, d), o.v))
                     /\ artifacts' = [artifacts EXCEPT !.backtests = DictPut(@, sym, o.v)]
                ELSE /\ executed' = Append(executed, ErrorEntry(SymbolOnlyStep("backtest", sym)))
                     /\ UNCHANGED artifacts
    /\ pc' = "assemble"
    /\ UNCHANGED <<inputs, around, reportsDir, completed, failure, llm, rawPlan, plan, idx, queue, rmode, picks,
                   runJson, reportMd, memFile>>

FallbackSkip ==
    /\ pc = "fallback"
    /\ ~FallbackDue
    /\ pc' = "assemble"
    /\ UNCHANGED <<inputs, around, reportsDir, completed, failure, llm, rawPlan, plan, idx, executed, calls, artifacts, queue,
                   rmode, picks, runJson, reportMd, memFile>>

\* _from_screen(screen, sym)   (agent_loop.py 225-229): [found, rec, conf]
FromScreen(screen, sym) ==
    LET rows == screen.results
        hits == { i \in 1..Len(rows) : rows[i].symbol = sym }
    IN IF hits = {} THEN [found |-> FALSE, recommendation |-> "", confidence |-> 0]
       ELSE [found |-> TRUE, recommendation |-> rows[SetMin(hits)].recommendation,
             confidence |-> rows[SetMin(hits)].confidence]

\* the picks before the confidence filter (agent_loop.py 231-240); a pick
\* whose confidence is None carries known = FALSE
PickOf(art, sym) ==
    IF DictHas(art.analysis, sym)
    THEN [symbol |-> sym, recommendation |-> DictGet(art.analysis, sym).recommendation,
          confidence |-> DictGet(art.analysis, sym).confidence, known |-> TRUE]
    ELSE LET r == FromScreen(art.screen, sym)
         IN [symbol |-> sym, recommendation |-> r.recommendation,
             confidence |-> r.confidence, known |-> r.found]

ChosenSyms(art) ==
    IF art.analysis # <<>> THEN DictKeys(art.analysis)
    ELSE pick_top_candidates(art.screen, 3)

\* the picks with no confidence filter
FilterNone(ps) == ps

RECURSIVE FilterConf(_)
\* [p for p in picks if (p.get("confidence") or 0) >= MIN_CONF]
FilterConf(ps) ==
    IF ps = <<>> THEN <<>>
    ELSE (IF (IF Head(ps).known THEN Head(ps).confidence ELSE 0) >= MIN_CONF
          THEN <<Head(ps)>> ELSE <<>>) \o FilterConf(Tail(ps))

BuildPicks(art) ==
    LET syms == ChosenSyms(art)
    IN FilterConf([i \in 1..Len(syms) |-> PickOf(art, syms[i])])

\* Assemble picks (agent_loop.py 231-243)
Assemble ==
    /\ pc = "assemble"
    /\ picks' = BuildPicks(artifacts)
    /\ pc' = "persist"
    /\ UNCHANGED <<inputs, around, reportsDir, completed, failure, llm, rawPlan, plan, idx, executed, calls, artifacts, queue,
                   rmode, runJson, reportMd, memFile>>

NoReport == [exists |-> FALSE, universe |-> <<>>, plan |-> <<>>, steps_executed |-> <<>>,
             picks |-> <<>>, artifacts |-> NoArtifacts]

\* run.json is written (agent_loop.py 246-257)
Persist ==
    /\ pc = "persist"
    /\ runJson' = [exists |-> TRUE, universe |-> universe, plan |-> plan,
                   steps_executed |-> executed, picks |-> picks, artifacts |-> artifacts]
    /\ reportsDir' = [reportsDir EXCEPT ![dpath] = runNo]
    /\ pc' = "markdown"
    /\ UNCHANGED <<inputs, around, completed, failure, llm, rawPlan, plan, idx, executed, calls, artifacts, queue,
                   rmode, picks, reportMd, memFile>>

\* a run that appends its record before it writes the report
PersistFailsRemembered ==
    /\ pc = "persist"
    /\ Raise("persist")
    /\ memFile' = Append(memFile, [universe_size |-> Len(universe), top_pick |-> "", top_conf |-> -1,
                                   best_params |-> [k |-> "null", fast |-> MissingN, slow |-> MissingN]])
    /\ UNCHANGED <<inputs, around, reportsDir, completed, llm, rawPlan, plan, idx, executed, calls, artifacts, queue,
                   rmode, picks, runJson, reportMd>>

\* opening or writing run.json fails: run_once raises
PersistFails ==
    /\ pc = "persist"
    /\ Raise("persist")
    /\ UNCHANGED <<inputs, around, reportsDir, completed, llm, rawPlan, plan, idx, executed, calls, artifacts, queue,
                   rmode, picks, runJson, reportMd, memFile>>

\* report.md is written (agent_loop.py 259-332)
Markdown ==
    /\ pc = "markdown"
    /\ reportMd' = TRUE
    /\ pc' = "remember"
    /\ UNCHANGED <<inputs, around, reportsDir, completed, failure, llm, rawPlan, plan, idx, executed, calls, artifacts, queue,
                   rmode, picks, runJson, memFile>>

NullParams == [k |-> "null", fast |-> MissingN, slow |-> MissingN]
ParamsOf(f, s) == [k |-> "map", fast |-> IntN(f), slow |-> IntN(s)]

\* the MemoryRecord of the run (agent_loop.py 335-346); top_pick "" and
\* top_conf -1 stand for None
RecordOf(ps, art) ==
    LET best_sym == IF ps # <<>> THEN ps[1].symbol ELSE ""
    IN [universe_size |-> Len(universe),
        top_pick |-> best_sym,
        top_conf |-> IF ps # <<>> THEN ps[1].confidence ELSE -1,
        best_params |-> IF best_sym # "" /\ DictHas(art.optimizations, best_sym)
                        THEN LET b == DictGet(art.optimizations, best_sym).best
                             IN ParamsOf(b.fast, b.slow)
                        ELSE NullParams]

\* a write that opens the file with "w"
MemoryOverwrite(file, rec) == <<rec>>

\* Memory.append(record)   (memory.py 11-13)
MemoryAppend(file, rec) == Append(file, rec)

\* memory.append(...); return report   (agent_loop.py 334-349)
Remember ==
    /\ pc = "remember"
    /\ memFile' = MemoryAppend(memFile, RecordOf(picks, artifacts))
    /\ completed' = completed + 1
    /\ pc' = "done"
    /\ UNCHANGED <<inputs, around, reportsDir, failure, llm, rawPlan, plan, idx, executed, calls, artifacts, queue,
                   rmode, picks, runJson, reportMd>>

Next ==
    \/ Plan \/ Validate
    \/ ExecStep \/ ExecDone
    \/ AutoAnalyze \/ AutoDone
    \/ ReflectA \/ ReflectReuse \/ ReflectOptimize \/ ReflectBacktest \/ ReflectDone
    \/ Fallback \/ FallbackSkip
    \/ Assemble \/ Persist \/ PersistFails \/ Markdown \/ Remember

\* ------------------------------------------------------------------------
\* The files under reports/ and the processes around one run
\* ------------------------------------------------------------------------
MaxDate == 2
MaxRuns == 3
MaxAppenders == 2
MaxRecentN == 3
MaxFileLen == 2

Dates == 1..MaxDate
AppIds == 1..MaxAppenders

\* Memory.path_for_date(): the directory named after date.today()
path_for_date(date) == date

NoReports == [d \in Dates |-> 0]
NoRecord == [universe_size |-> 0, top_pick |-> "", top_conf |-> -1,
             best_params |-> [k |-> "null", fast |-> MissingN, slow |-> MissingN]]
NoRead == [op |-> "none", n |-> 0, symbol |-> "", file |-> <<>>, value |-> <<>>]
IdleApp == [pc |-> "idle", rec |-> NoRecord, pos |-> 0]
NoApps == [w \in AppIds |-> IdleApp]

\* nothing but the run is going on
NoCall == [fn |-> "none"]
NoBench == series = <<>> /\ args = NoCall /\ market = <<>> /\ result = NoCall
NothingElse == readOut = NoRead /\ apps = NoApps /\ atomicAppend = TRUE /\ NoBench

\* a single run, the first, on a date with no report yet
FirstRun ==
    /\ today = 1 /\ dpath = path_for_date(1) /\ reportsDir = NoReports
    /\ runNo = 1 /\ completed = 0
    /\ NothingElse

\* the state run_once starts from, once Tools and Memory are constructed
RunStart ==
    /\ failure = "none"
    /\ idx = 1
    /\ executed = <<>>
    /\ calls = <<>>
    /\ artifacts = NoArtifacts
    /\ queue = <<>>
    /\ rmode = "none"
    /\ picks = <<>>
    /\ reportMd = FALSE
    /\ plan = <<>>

Init ==
    /\ pc = "plan"
    /\ \/ /\ universe \in Universes
          /\ runDays \in DaysInputs
          /\ cfgMaxSteps \in MaxStepsInputs
          /\ memFile \in MemFiles
       \/ /\ universe = <<"AAPL", "MSFT">>
          /\ runDays = 365
          /\ cfgMaxSteps = [k |-> "none", n |-> 0]
          /\ memFile = StaleMemFile
    /\ runJson = NoReport
    /\ llm = [k |-> "none", v |-> PlanOf(<<>>)]
    /\ rawPlan = PlanOf(<<>>)
    /\ RunStart
    /\ FirstRun

Spec == Init /\ [][Next]_vars

\* _validate_plan applied to any raw plan
InitValidate ==
    /\ pc = "validate"
    /\ RawPlanInput(rawPlan)
    /\ universe = <<>> /\ runDays = 365 /\ cfgMaxSteps = [k |-> "none", n |-> 0]
    /\ memFile = <<>> /\ runJson = NoReport
    /\ llm = [k |-> "none", v |-> PlanOf(<<>>)]
    /\ RunStart
    /\ FirstRun

SpecValidate == InitValidate /\ [][Validate]_vars

\* ------------------------------------------------------------------------
\* Runs one after another
\* ------------------------------------------------------------------------
\* a call of run_once: Tools and Memory are built and the directory of the
\* run is fixed (agent_loop.py 103-106, 126-127)
StartRun ==
    /\ pc \in {"idle", "done", "raised"}
    /\ runNo < MaxRuns
    /\ runNo' = runNo + 1
    /\ dpath' = path_for_date(today)
    /\ pc' = "plan"
    /\ failure' = "none" /\ idx' = 1 /\ plan' = <<>>
    /\ executed' = <<>> /\ calls' = <<>> /\ artifacts' = NoArtifacts
    /\ queue' = <<>> /\ rmode' = "none" /\ picks' = <<>>
    /\ runJson' = NoReport /\ reportMd' = FALSE
    /\ UNCHANGED <<inputs, llm, rawPlan, memFile, today, reportsDir, completed,
                   readOut, apps, atomicAppend, bench>>

AnalysisOf(sym, c) == [symbol |-> sym, recommendation |-> Recommend(c), confidence |-> c]

\* what a run may hold when it reaches Assemble picks: nothing, an
\* analysis with the optimization of its symbol, an analysis alone
GatheredArtifacts ==
    { NoArtifacts,
      [NoArtifacts EXCEPT
          !.analysis = DictPut(<<>>, "AAPL", AnalysisOf("AAPL", 70)),
          !.optimizations = DictPut(<<>>, "AAPL",
                                    [symbol |-> "AAPL", best |-> [fast |-> 20, slow |-> 100]])],
      [NoArtifacts EXCEPT !.analysis = DictPut(<<>>, "MSFT", AnalysisOf("MSFT", 60))] }

\* Planner, Execute, Auto-analyze, Reflect and Fallback (agent_loop.py
\* 112-222) taken as one step: they touch no file under reports/, and leave
\* the artifacts of the run or raise
Gather ==
    /\ pc = "plan"
    /\ \/ \E art \in GatheredArtifacts :
             artifacts' = art /\ pc' = "assemble" /\ UNCHANGED failure
       \/ Raise("tool") /\ UNCHANGED artifacts
    /\ UNCHANGED <<inputs, around, reportsDir, completed, llm, rawPlan, plan, idx, executed,
                   calls, queue, rmode, picks, runJson, reportMd, memFile>>

\* midnight: date.today() moves on, whatever a run is doing
DayPasses ==
    /\ today < MaxDate
    /\ today' = today + 1
    /\ UNCHANGED <<inputs, pc, failure, llm, rawPlan, plan, idx, executed, calls, artifacts,
                   queue, rmode, picks, runJson, reportMd, memFile, dpath, reportsDir,
                   runNo, completed, readOut, apps, atomicAppend, bench>>

NextRuns ==
    \/ StartRun \/ Gather \/ DayPasses
    \/ Assemble \/ Persist \/ PersistFails \/ Markdown \/ Remember

InitRuns ==
    /\ pc = "idle"
    /\ universe = <<"AAPL", "MSFT">> /\ runDays = 365
    /\ cfgMaxSteps = [k |-> "none", n |-> 0]
    /\ memFile \in MemFiles
    /\ runJson = NoReport
    /\ llm = [k |-> "none", v |-> PlanOf(<<>>)]
    /\ rawPlan = PlanOf(<<>>)
    /\ RunStart
    /\ today = 1 /\ dpath = path_for_date(1) /\ reportsDir = NoReports
    /\ runNo = 0 /\ completed = 0
    /\ NothingElse

SpecRuns == InitRuns /\ [][NextRuns]_vars

\* ------------------------------------------------------------------------
\* Reading the Run Memory
\* ------------------------------------------------------------------------
MemRecord(sym, bp) == [universe_size |-> 2, top_pick |-> sym, top_conf |-> 70, best_params |-> bp]

\* records as memory.jsonl may hold them: best_params null, or a mapping
\* whose fast and slow are a number or null
FoundRecords ==
    { MemRecord("AAPL", bp) :
        bp \in { ParamsOf(20, 100), NullParams,
                 [k |-> "map", fast |-> IntN(0), slow |-> IntN(100)],
                 [k |-> "map", fast |-> IntN(-5), slow |-> IntN(20)],
                 [k |-> "map", fast |-> MissingN, slow |-> IntN(100)] } }
    \cup { MemRecord("MSFT", ParamsOf(10, 50)), MemRecord("", NullParams) }

\* a call of Memory.recent(n); a file that is missing or empty has no line
ReadRecent ==
    /\ \E n \in 0..MaxRecentN :
          readOut' = [op |-> "recent", n |-> n, symbol |-> "", file |-> memFile,
                      value |-> recent(memFile, n)]
    /\ UNCHANGED <<inputs, pc, failure, llm, rawPlan, plan, idx, executed, calls, artifacts,
                   queue, rmode, picks, runJson, reportMd, memFile, today, dpath,
                   reportsDir, runNo, completed, apps, atomicAppend, bench>>

\* a call of Memory.last_best_params(symbol)
ReadLastBest ==
    /\ \E sym \in {"AAPL", "MSFT"} :
          readOut' = [op |-> "last_best_params", n |-> 0, symbol |-> sym, file |-> memFile,
                      value |-> last_best_params(memFile, sym)]
    /\ UNCHANGED <<inputs, pc, failure, llm, rawPlan, plan, idx, executed, calls, artifacts,
                   queue, rmode, picks, runJson, reportMd, memFile, today, dpath,
                   reportsDir, runNo, completed, apps, atomicAppend, bench>>

NextMemoryRead == ReadRecent \/ ReadLastBest

\* no run in progress, any memory file
Quiet ==
    /\ pc = "idle"
    /\ universe = <<"AAPL", "MSFT">> /\ runDays = 365
    /\ cfgMaxSteps = [k |-> "none", n |-> 0]
    /\ runJson = NoReport
    /\ llm = [k |-> "none", v |-> PlanOf(<<>>)]
    /\ rawPlan = PlanOf(<<>>)
    /\ RunStart
    /\ today = 1 /\ dpath = path_for_date(1) /\ reportsDir = NoReports
    /\ runNo = 0 /\ completed = 0
    /\ readOut = NoRead /\ apps = NoApps

InitMemoryRead ==
    /\ Quiet /\ NoBench
    /\ atomicAppend = TRUE
    /\ memFile \in SeqsUpTo(FoundRecords, MaxFileLen)

SpecMemoryRead == InitMemoryRead /\ [][NextMemoryRead]_vars

\* ------------------------------------------------------------------------
\* Processes appending to the Run Memory at the same time
\* Memory.append takes no lock: open(mem_file, "a"), one write, close.  A
\* platform that appends atomically puts the line at the end of the file as
\* it is at the write; one that does not moves to the end first and writes
\* there afterwards.  Records are taken to be of one length, so a write
\* over a line replaces it.
\* ------------------------------------------------------------------------
\* the records runs append
AppendedRecords ==
    { MemRecord("AAPL", ParamsOf(20, 100)), MemRecord("MSFT", NullParams) }

\* write(2) at line pos + 1 of the file
WriteAt(file, pos, rec) ==
    IF pos >= Len(file) THEN Append(file, rec)
    ELSE [file EXCEPT ![pos + 1] = rec]

appvars == <<inputs, pc, failure, llm, rawPlan, plan, idx, executed, calls, artifacts,
             queue, rmode, picks, runJson, reportMd, today, dpath, reportsDir, runNo,
             completed, readOut, atomicAppend, bench>>

\* with open(self.mem_file, "a") as f   (memory.py 12)
AppendOpen(w) ==
    /\ apps[w].pc = "idle"
    /\ \E rec \in AppendedRecords :
          apps' = [apps EXCEPT ![w] = [pc |-> "open", rec |-> rec, pos |-> 0]]
    /\ UNCHANGED <<appvars, memFile>>

\* the move to the end of the file that precedes the write where the
\* append is not atomic
AppendSeek(w) ==
    /\ ~atomicAppend
    /\ apps[w].pc = "open"
    /\ apps' = [apps EXCEPT ![w].pc = "sought", ![w].pos = Len(memFile)]
    /\ UNCHANGED <<appvars, memFile>>

\* f.write(json.dumps(record) + "\n"), flushed when the file is closed
\* (memory.py 13)
AppendWrite(w) ==
    /\ \/ atomicAppend /\ apps[w].pc = "open"
          /\ memFile' = MemoryAppend(memFile, apps[w].rec)
       \/ apps[w].pc = "sought"
          /\ memFile' = WriteAt(memFile, apps[w].pos, apps[w].rec)
    /\ apps' = [apps EXCEPT ![w].pc = "closed"]
    /\ UNCHANGED appvars

NextConcurrent ==
    \/ \E w \in AppIds : AppendOpen(w)
    \/ \E w \in AppIds : AppendSeek(w)
    \/ \E w \in AppIds : AppendWrite(w)
    \/ ReadRecent
    \/ ReadLastBest

InitConcurrent ==
    /\ Quiet /\ NoBench
    /\ atomicAppend \in BOOLEAN
    /\ memFile \in SeqsUpTo({MemRecord("", NullParams)}, 1)

SpecConcurrent == InitConcurrent /\ [][NextConcurrent]_vars

\* ------------------------------------------------------------------------
\* The signal engine (agent.py): MarketAgent.analyze and MarketAgent.screen
\* called on their own.  market[symbol] is what the price and news
\* providers come to for the symbol: no data, or the four sub-scores, in
\* hundredths.  overall is held in ten-thousandths, so that the blend
\* 0.45, 0.20, 0.15, 0.20 of the sub-scores is a sum of whole numbers.  The
\* sub-scores are taken where the floating-point blend falls on the same
\* side of 0.60 and 0.40 as the exact one.
\* ------------------------------------------------------------------------
\* what is left alone by a call outside any run
offline == <<inputs, pc, failure, llm, rawPlan, plan, idx, executed, calls, artifacts,
             queue, rmode, picks, runJson, reportMd, memFile, today, dpath, reportsDir,
             runNo, completed, readOut, apps, atomicAppend>>

\* no run, no memory, no other process
Offline == Quiet /\ atomicAppend = TRUE /\ memFile = <<>>

Scores(m, r, tr, s) == [k |-> "ok", momentum |-> m, rsi |-> r, trend |-> tr, sentiment |-> s]
NoData == [k |-> "nodata", momentum |-> 0, rsi |-> 0, trend |-> 0, sentiment |-> 0]
ScorePool ==
    { Scores(m, r, tr, s) : m \in {0, 100}, r \in {20, 50, 80}, tr \in {0, 100}, s \in {35, 75} }
    \cup { Scores(100, 50, 0, 50), Scores(40, 50, 100, 35), Scores(0, 50, 0, 75),
            Scores(100, 20, 0, 55), Scores(0, 50, 100, 75) }
EngineSymbols == {"AAPL", "MSFT"}
Markets == [EngineSymbols -> ScorePool \cup {NoData}]

\* the blend (agent.py 112-118)
Overall(sc) == 45 * sc.momentum + 20 * sc.rsi + 15 * sc.trend + 20 * sc.sentiment

\* MarketAgent.analyze(symbol): get_price_history raises for a symbol
\* without prices (data.py 24-25), otherwise an AnalysisResult
analyze(mkt, symbol) ==
    IF mkt[symbol].k = "nodata" THEN [fn |-> "analyze", k |-> "raise", exc |-> "ValueError"]
    ELSE LET overall == Overall(mkt[symbol])
         IN [fn |-> "analyze", k |-> "ok", symbol |-> symbol,
             overall |-> overall,
             recommendation |-> RecommendOf(overall, 10000),
             confidence |-> overall]

\* the loop of MarketAgent.screen (agent.py 36-46): the rows gathered so
\* far, or the exception that left the loop.  The handler names e, which
\* "except Exception:" does not bind, so the handler itself raises.
RECURSIVE ScreenLoop(_, _, _)
ScreenLoop(mkt, symbols, rows) ==
    IF symbols = <<>> THEN [k |-> "ok", results |-> rows, errors |-> <<>>]
    ELSE LET r == analyze(mkt, Head(symbols))
         IN IF r.k = "ok"
            THEN ScreenLoop(mkt, Tail(symbols),
                            Append(rows, [symbol |-> r.symbol,
                                          recommendation |-> r.recommendation,
                                          confidence |-> r.confidence]))
            ELSE [k |-> "raise", results |-> <<>>, errors |-> <<>>]

\* MarketAgent.screen(symbols)
screen(mkt, symbols) ==
    LET out == ScreenLoop(mkt, symbols, <<>>)
    IN IF out.k = "ok"
       THEN [fn |-> "screen", k |-> "ok", results |-> SortByConf(out.results),
             errors |-> out.errors]
       ELSE [fn |-> "screen", k |-> "raise", exc |-> "NameError"]

EngineCalls ==
    { [fn |-> "analyze", symbol |-> s] : s \in EngineSymbols }
    \cup { [fn |-> "screen", symbols |-> l] :
              l \in { <<"AAPL", "MSFT">>, <<"MSFT", "AAPL", "MSFT">>, <<>> } }

Analyze ==
    /\ args.fn = "analyze" /\ result = NoCall
    /\ result' = analyze(market, args.symbol)
    /\ UNCHANGED <<offline, series, args, market>>

Screen ==
    /\ args.fn = "screen" /\ result = NoCall
    /\ result' = screen(market, args.symbols)
    /\ UNCHANGED <<offline, series, args, market>>

NextEngine == Analyze \/ Screen

InitEngine ==
    /\ Offline
    /\ series = <<>> /\ result = NoCall
    /\ market \in Markets
    /\ args \in EngineCalls

SpecEngine == InitEngine /\ [][NextEngine]_vars

\* ------------------------------------------------------------------------
\* The backtester (backtest.py 30-56) called on its own.  A price is a
\* whole number, an average is held as the sum over its window, a return
\* and an equity value as a fraction [num, den], so that nothing is
\* rounded.  The metrics are left out: they do not feed the equity.
\* ------------------------------------------------------------------------
MaxPrice == 2      \* prices are 1..MaxPrice
MaxBars == 7       \* the longest series

RECURSIVE SumOf(_, _, _)
SumOf(xs, a, b) == IF a > b THEN 0 ELSE xs[b] + SumOf(xs, a, b - 1)

\* a moving average that is defined from the first bar on, the bars
\* missing from the window counting as zero
smaPadded(xs, window) ==
    [i \in 1..Len(xs) |->
        IF window = 0 THEN [nan |-> TRUE, sum |-> 0]
        ELSE [nan |-> FALSE, sum |-> SumOf(xs, Max2(1, i - window + 1), i)]]

\* sma(series, window): NaN until the window is full, and everywhere for
\* an empty window
sma(xs, window) ==
    [i \in 1..Len(xs) |->
        IF window = 0 \/ i < window THEN [nan |-> TRUE, sum |-> 0]
        ELSE [nan |-> FALSE, sum |-> SumOf(xs, i - window + 1, i)]]

\* fast_sma > slow_sma at one bar: a comparison with NaN is False
Above(f, fast, s, slow) == ~f.nan /\ ~s.nan /\ f.sum * slow > s.sum * fast

\* the signal without .shift(1)
SignalSameBar(xs, fast, slow) ==
    LET fast_sma == sma(xs, fast)
        slow_sma == sma(xs, slow)
    IN [i \in 1..Len(xs) |->
          IF Above(fast_sma[i], fast, slow_sma[i], slow) THEN 1 ELSE 0]

\* (fast_sma > slow_sma).astype(int).shift(1).reindex(prices.index).fillna(0)
Signal(xs, fast, slow) ==
    LET fast_sma == sma(xs, fast)
        slow_sma == sma(xs, slow)
    IN [i \in 1..Len(xs) |->
          IF i > 1 /\ Above(fast_sma[i - 1], fast, slow_sma[i - 1], slow) THEN 1 ELSE 0]

\* prices.pct_change().fillna(0.0)
DailyRet(xs) ==
    [i \in 1..Len(xs) |->
        IF i = 1 THEN [num |-> 0, den |-> 1]
        ELSE [num |-> xs[i] - xs[i - 1], den |-> xs[i - 1]]]

\* (1.0 + strat_ret).cumprod()
RECURSIVE CumProd(_, _)
CumProd(rets, i) ==
    IF i = 0 THEN [num |-> 1, den |-> 1]
    ELSE LET before == CumProd(rets, i - 1)
         IN [num |-> before.num * (rets[i].den + rets[i].num),
             den |-> before.den * rets[i].den]

\* backtest_sma_cross(prices, fast, slow)
backtest_sma_cross(xs, fast, slow) ==
    IF fast >= slow
    THEN [fn |-> "backtest_sma_cross", k |-> "raise", exc |-> "ValueError", why |-> "order"]
    ELSE IF Len(xs) < Need(fast, slow)
    THEN [fn |-> "backtest_sma_cross", k |-> "raise", exc |-> "ValueError", why |-> "bars"]
    ELSE IF RollingRaises(fast) \/ RollingRaises(slow)
    THEN [fn |-> "backtest_sma_cross", k |-> "raise", exc |-> "ValueError", why |-> "window"]
    ELSE LET signal == Signal(xs, fast, slow)
             daily_ret == DailyRet(xs)
             strat_ret == [i \in 1..Len(xs) |->
                             [num |-> daily_ret[i].num * signal[i], den |-> daily_ret[i].den]]
         IN [fn |-> "backtest_sma_cross", k |-> "ok", signal |-> signal,
             returns |-> strat_ret,
             equity |-> [i \in 1..Len(xs) |-> CumProd(strat_ret, i)]]

PriceSeries ==
    UNION { [1..n -> 1..MaxPrice] : n \in (MaxBars - 1)..MaxBars }
BacktestCalls ==
    { [fn |-> "backtest_sma_cross", fast |-> f, slow |-> s] : f \in -1..2, s \in 1..2 }

Backtest ==
    /\ args.fn = "backtest_sma_cross" /\ result = NoCall
    /\ result' = backtest_sma_cross(series, args.fast, args.slow)
    /\ UNCHANGED <<offline, series, args, market>>

\* the same call on a series that differs in one bar
Reprice ==
    /\ args.fn = "backtest_sma_cross" /\ result # NoCall
    /\ \E t \in 1..Len(series) : \E v \in (1..MaxPrice) \ {series[t]} :
          /\ series' = [series EXCEPT ![t] = v]
          /\ result' = backtest_sma_cross(series', args.fast, args.slow)
    /\ UNCHANGED <<offline, args, market>>

NextBacktest == Backtest \/ Reprice

InitBacktest ==
    /\ Offline
    /\ market = <<>> /\ result = NoCall
    /\ series \in PriceSeries
    /\ args \in BacktestCalls

SpecBacktest == InitBacktest /\ [][NextBacktest]_vars

\* ------------------------------------------------------------------------
\* The optimizer (backtest.py 58-110) called on its own.  The series is
\* long (260 bars at least), so the backtests of the two segments are not
\* computed: market[<<fast, slow>>] holds the Sharpe each of them comes to,
\* in-sample and out-of-sample, and a backtest raises where
\* backtest_sma_cross does.  split is held in hundredths.  The series is
\* the bars numbered in order, so that a segment shows where it was cut.
\* ------------------------------------------------------------------------
MaxTopK == 2

\* int(n * split), on the values of the model, where the floating-point
\* product truncates as the exact one
SplitIndex(n, split) == Max2(1, Min2(n - 1, (n * split) \div 100))

IsSegment(xs, at) == SubSeq(xs, 1, at)
\* an out-of-sample segment that starts one bar early
OsSegmentOverlap(xs, at) == SubSeq(xs, at, Len(xs))
OsSegment(xs, at) == SubSeq(xs, at + 1, Len(xs))

\* the body of the two loops for one pair: the row it appends, if any
RowsOfPair(mkt, f, s, nis, nos) ==
    IF f >= s THEN <<>>
    ELSE IF nis < Need(f, s) \/ nos < Need(f, s) THEN <<>>
    ELSE IF Refused(nis, f, s) \/ Refused(nos, f, s) \/ RollingRaises(f) \/ RollingRaises(s)
    THEN <<>>
    ELSE <<[fast |-> f, slow |-> s, IS |-> mkt[<<f, s>>].IS, OS |-> mkt[<<f, s>>].OS]>>

\* for s in sorted(set(slow_values))
RECURSIVE SlowLoop(_, _, _, _, _)
SlowLoop(mkt, f, slows, nis, nos) ==
    IF slows = <<>> THEN <<>>
    ELSE RowsOfPair(mkt, f, Head(slows), nis, nos) \o SlowLoop(mkt, f, Tail(slows), nis, nos)

\* for f in sorted(set(fast_values))
RECURSIVE FastLoop(_, _, _, _, _)
FastLoop(mkt, fasts, slows, nis, nos) ==
    IF fasts = <<>> THEN <<>>
    ELSE SlowLoop(mkt, Head(fasts), slows, nis, nos)
         \o FastLoop(mkt, Tail(fasts), slows, nis, nos)

\* an insertion that puts a row before the rows it ties with
RECURSIVE InsertBeforeTies(_, _)
InsertBeforeTies(row, sorted) ==
    IF sorted = <<>> THEN <<row>>
    ELSE IF Head(sorted).IS > row.IS
         THEN <<Head(sorted)>> \o InsertBeforeTies(row, Tail(sorted))
         ELSE <<row>> \o sorted
\* rows.sort(key=IS Sharpe, reverse=True): stable
RECURSIVE InsertByIS(_, _)
InsertByIS(row, sorted) ==
    IF sorted = <<>> THEN <<row>>
    ELSE IF Head(sorted).IS >= row.IS
         THEN <<Head(sorted)>> \o InsertByIS(row, Tail(sorted))
         ELSE <<row>> \o sorted
RECURSIVE SortByIS(_)
SortByIS(rows) ==
    IF rows = <<>> THEN <<>>
    ELSE InsertByIS(rows[Len(rows)], SortByIS(SubSeq(rows, 1, Len(rows) - 1)))

\* the finalists without the cut
FinalistsAll(rows, top_k) == rows
\* rows[:max(1, top_k)]
Finalists(rows, top_k) == Take(rows, Max2(1, top_k))

\* the last of the finalists with the greatest OS Sharpe
BestLast(finalists) ==
    finalists[CHOOSE i \in 1..Len(finalists) :
                 /\ \A j \in 1..Len(finalists) : finalists[j].OS <= finalists[i].OS
                 /\ \A j \in (i + 1)..Len(finalists) : finalists[j].OS < finalists[i].OS]
\* max(finalists, key=OS Sharpe): the first of the greatest
BestOf(finalists) ==
    finalists[CHOOSE i \in 1..Len(finalists) :
                 /\ \A j \in 1..Len(finalists) : finalists[j].OS <= finalists[i].OS
                 /\ \A j \in 1..(i - 1) : finalists[j].OS < finalists[i].OS]

\* optimize_sma_grid(prices, fast_values, slow_values, split, top_k)
optimize_sma_grid(mkt, xs, fast_values, slow_values, split, top_k) ==
    LET n == Len(xs)
        split_idx == SplitIndex(n, split)
        is_prices == IsSegment(xs, split_idx)
        os_prices == OsSegment(xs, split_idx)
        rows == FastLoop(mkt, SortedOfSet(SeqRange(fast_values)),
                         SortedOfSet(SeqRange(slow_values)), Len(is_prices), Len(os_prices))
        finalists == Finalists(SortByIS(rows), top_k)
    IN IF n < 260
       THEN [fn |-> "optimize_sma_grid", k |-> "raise", exc |-> "ValueError", why |-> "bars"]
       ELSE IF rows = <<>>
       THEN [fn |-> "optimize_sma_grid", k |-> "raise", exc |-> "ValueError", why |-> "pairs"]
       ELSE [fn |-> "optimize_sma_grid", k |-> "ok", split |-> split,
             bars_total |-> n, bars_is |-> Len(is_prices), bars_os |-> Len(os_prices),
             best |-> BestOf(finalists), leaderboard |-> finalists,
             is_prices |-> is_prices, os_prices |-> os_prices]

BarCounts == {259, 260, 261, 1000}
GridPairs == {<<10, 20>>, <<10, 50>>, <<20, 50>>}
SharpeVals == {0, 1}
SharpeTables == [GridPairs -> [IS : SharpeVals, OS : SharpeVals]]
OptimizeCalls ==
    { [fn |-> "optimize_sma_grid", fast_values |-> fv, slow_values |-> sv,
       split |-> sp, top_k |-> k] :
        fv \in { <<10, 20>>, <<20, 10, 10>>, <<-5, 10>> },
        sv \in { <<20, 50>>, <<50, 20, 50>>, <<600>> },
        sp \in {0, 50, 70, 90, 100},
        k \in 1..MaxTopK }

Optimize ==
    /\ args.fn = "optimize_sma_grid" /\ result = NoCall
    /\ result' = optimize_sma_grid(market, series, args.fast_values, args.slow_values,
                                   args.split, args.top_k)
    /\ UNCHANGED <<offline, series, args, market>>

InitOptimize ==
    /\ Offline
    /\ result = NoCall
    /\ \E n \in BarCounts : series = [b \in 1..n |-> b]
    /\ market \in SharpeTables
    /\ args \in OptimizeCalls

SpecOptimize == InitOptimize /\ [][Optimize]_vars

\* ------------------------------------------------------------------------
\* Runs one after another whose screen puts AAPL first.  What precedes
\* Assemble picks (agent_loop.py 112-222) is taken as one step: the screen
\* and the analysis of AAPL succeed, Reflect takes branch (b) on the memory
\* as it stands, and Fallback follows when Reflect left no backtest.
\* ------------------------------------------------------------------------
MaxHistory == 52      \* the records the memory may grow to

StartReuseRun ==
    /\ pc \in {"idle", "done", "raised"}
    /\ Len(memFile) < MaxHistory
    /\ pc' = "plan"
    /\ failure' = "none" /\ idx' = 1 /\ plan' = <<>>
    /\ executed' = <<>> /\ calls' = <<>> /\ artifacts' = NoArtifacts
    /\ queue' = <<>> /\ rmode' = "none" /\ picks' = <<>>
    /\ runJson' = NoReport /\ reportMd' = FALSE
    /\ UNCHANGED <<inputs, llm, rawPlan, memFile, today, dpath, reportsDir, runNo, completed,
                   readOut, apps, atomicAppend, bench>>

ReflectCall(tool, sym, o, payload) == [tool |-> tool, symbol |-> sym, k |-> o.k, payload |-> payload]
WithBacktest(art, sym, o) ==
    IF o.k = "ok" THEN [art EXCEPT !.backtests = DictPut(@, sym, o.v)] ELSE art

\* the calls and the artifacts Reflect (b) may leave for the symbol
\* (agent_loop.py 183-209)
ReflectBRuns(file, sym) ==
    LET d == Max2(1200, runDays)
        base == [NoArtifacts EXCEPT
                    !.screen = [present |-> TRUE, results |-> <<AnalysisOf(sym, 70)>>],
                    !.analysis = DictPut(<<>>, sym, AnalysisOf(sym, 70))]
        reuse == last_best_params(file, sym)
        req == DefaultOptimization(sym, d)
    IN IF reuse.found
       THEN { [calls |-> <<ReflectCall("backtest", sym, o,
                                       BacktestPayload(sym, reuse.fast, reuse.slow, d))>>,
               artifacts |-> WithBacktest(base, sym, o)] :
                o \in BacktestOutcomes(sym, reuse.fast, reuse.slow, d) }
       ELSE UNION {
              IF o.k = "ok"
              THEN { [calls |-> <<ReflectCall("optimize_backtest", sym, o, req),
                                  ReflectCall("backtest", sym, b,
                                      BacktestPayload(sym, o.v.best.fast, o.v.best.slow, d))>>,
                      artifacts |-> WithBacktest(
                                      [base EXCEPT !.optimizations = DictPut(@, sym, o.v)],
                                      sym, b)] :
                       b \in BacktestOutcomes(sym, o.v.best.fast, o.v.best.slow, d) }
              ELSE { [calls |-> <<ReflectCall("optimize_backtest", sym, o, req)>>,
                      artifacts |-> base] } :
              o \in OptimizeOutcomes(sym, req.days, req.fast_values, req.slow_values) }

GatherReflectB ==
    /\ pc = "plan"
    /\ \E r \in ReflectBRuns(memFile, "AAPL") :
          IF r.artifacts.backtests = <<>>
          THEN \E o \in BacktestOutcomes("AAPL", 50, 200, Max2(1000, runDays)) :
                  /\ calls' = Append(r.calls,
                                     ReflectCall("backtest", "AAPL", o,
                                         BacktestPayload("AAPL", 50, 200, Max2(1000, runDays))))
                  /\ artifacts' = WithBacktest(r.artifacts, "AAPL", o)
          ELSE calls' = r.calls /\ artifacts' = r.artifacts
    /\ rmode' = "b"
    /\ pc' = "assemble"
    /\ UNCHANGED <<inputs, around, reportsDir, completed, failure, llm, rawPlan, plan, idx,
                   executed, queue, picks, runJson, reportMd, memFile>>

NextReuse ==
    \/ StartReuseRun \/ GatherReflectB
    \/ Assemble \/ Persist \/ PersistFails \/ Markdown \/ Remember

\* the memory is empty, or holds one record: a pair for AAPL, or for MSFT
InitReuse ==
    /\ pc = "idle"
    /\ universe = <<"AAPL", "MSFT">> /\ runDays = 365
    /\ cfgMaxSteps = [k |-> "none", n |-> 0]
    /\ memFile \in MemFiles \cup {<<MemRecord("MSFT", ParamsOf(10, 50))>>}
    /\ runJson = NoReport
    /\ llm = [k |-> "none", v |-> PlanOf(<<>>)]
    /\ rawPlan = PlanOf(<<>>)
    /\ RunStart
    /\ FirstRun

SpecReuse == InitReuse /\ [][NextReuse]_vars

\* ------------------------------------------------------------------------
\* Properties of _validate_plan
\* ------------------------------------------------------------------------
\* _validate_plan has returned
Validated == pc \notin {"plan", "validate", "raised"}
\* the raw steps the validator was given, and the positions it may look at
RawSteps == StepsOf(rawPlan)
FirstSix == 1..Min2(6, Len(RawSteps))
\* raw step j survives whitelist and sanitation
Survives(j) == SanitizeStep(RawSteps[j]).st = "keep"
\* ... as this step
Image(j) == [tool |-> SanitizeStep(RawSteps[j]).tool, args |-> SanitizeStep(RawSteps[j]).args]
StrictlyIncreasing(xs) == \A i \in 1..(Len(xs) - 1) : xs[i] < xs[i + 1]

\* C1: every step of the validated plan has a tool of the whitelist
\* {screen, analyze, optimize_backtest, backtest}; a step with another,
\* missing or empty tool name is not in the output.
C1_Whitelist ==
    Validated =>
        \A i \in 1..Len(plan) :
            plan[i].tool \in {"screen", "analyze", "optimize_backtest", "backtest"}

\* a raw plan with a disallowed and with a nameless step that validated to
\* a non-empty plan
C1_Witness ==
    /\ Validated
    /\ Len(plan) >= 1
    /\ \E j \in FirstSix : RawSteps[j].obj /\ ToolOf(RawSteps[j]) = "delete_db"

\* C2: every backtest step of the validated plan has a non-empty symbol and
\* fast < slow on the emitted values, fast within [2,200] and slow within
\* [5,400]; it comes from a raw backtest step with a non-empty symbol and raw
\* fast < slow, so a raw step with an empty symbol or fast >= slow is
\* dropped and not repaired.
C2_BacktestValid ==
    Validated =>
        \A i \in 1..Len(plan) :
            plan[i].tool = "backtest" =>
                /\ plan[i].args.symbol # ""
                /\ plan[i].args.fast < plan[i].args.slow
                /\ plan[i].args.fast \in 2..200
                /\ plan[i].args.slow \in 5..400
                /\ \E j \in FirstSix :
                      LET a == ArgsOf(RawSteps[j])
                      IN /\ RawSteps[j].obj
                         /\ ToolOf(RawSteps[j]) = "backtest"
                         /\ SymOf(a.symbol) = plan[i].args.symbol
                         /\ NumOf(a.fast, 50) < NumOf(a.slow, 200)
                         /\ plan[i].args.fast = Max2(2, Min2(NumOf(a.fast, 50), 200))
                         /\ plan[i].args.slow = Max2(5, Min2(NumOf(a.slow, 200), 400))

\* a backtest whose raw 300/500 was clamped to 200/400 is emitted while a
\* raw backtest with fast >= slow of the same plan is not
C2_Witness ==
    /\ Validated
    /\ Len(plan) = 1
    /\ plan[1].tool = "backtest" /\ plan[1].args.fast = 200 /\ plan[1].args.slow = 400
    /\ \E j \in FirstSix :
          /\ ToolOf(RawSteps[j]) = "backtest"
          /\ NumOf(ArgsOf(RawSteps[j]).fast, 50) >= NumOf(ArgsOf(RawSteps[j]).slow, 200)
    /\ \E j \in FirstSix : NumOf(ArgsOf(RawSteps[j]).fast, 50) = 300

\* the first raw position that sanitizes to output step i (0 if none)
FirstRaw(i) ==
    LET from == {j \in FirstSix : Survives(j) /\ Image(j) = plan[i]}
    IN IF from = {} THEN 0 ELSE SetMin(from)

\* C3: no two steps of the validated plan have the same tool and sanitized
\* arguments; every raw step that survives sanitation is represented by the
\* first raw step with its key, and the kept steps are in input order.  The
\* guardrail test plan validates to its first screen step alone.
C3_Dedup ==
    Validated =>
        /\ \A i, j \in 1..Len(plan) : i # j => plan[i] # plan[j]
        /\ \A i \in 1..Len(plan) : FirstRaw(i) # 0
        /\ \A i, j \in 1..Len(plan) : i < j => FirstRaw(i) < FirstRaw(j)
        /\ \A j \in FirstSix : Survives(j) => \E i \in 1..Len(plan) : plan[i] = Image(j)
        /\ rawPlan = GuardrailTestPlan =>
              plan = <<[tool |-> "screen", args |-> [symbols |-> <<"AAPL">>, days |-> 365]]>>

\* two raw steps that differ as written and sanitize to the same key, with
\* another kept step after them
C3_Witness ==
    /\ Validated
    /\ Len(plan) = 2
    /\ \E j, k \in FirstSix :
          /\ j < k /\ Survives(j) /\ Survives(k)
          /\ RawSteps[j] # RawSteps[k] /\ Image(j) = Image(k)
    /\ Len(RawSteps) >= 3

\* C4: the validated plan has at most 6 steps and each of them comes from
\* one of the first 6 raw steps: truncation precedes the other passes.
C4_CapFirst ==
    Validated =>
        /\ Len(plan) <= 6
        /\ \A i \in 1..Len(plan) : \E j \in FirstSix : Survives(j) /\ Image(j) = plan[i]

\* a raw plan of more than 6 steps, 6 of them kept, whose 7th step would
\* have been kept too and is absent
C4_Witness ==
    /\ Validated
    /\ Len(plan) = 6
    /\ Len(RawSteps) >= 7
    /\ Survives(7)
    /\ \A i \in 1..Len(plan) : plan[i] # Image(7)

\* C5: the arguments of every step of the validated plan are within the
\* documented bounds.
C5_ArgBounds ==
    Validated =>
        \A i \in 1..Len(plan) :
            LET t == plan[i].tool
                a == plan[i].args
            IN /\ t \in {"screen", "analyze"} => a.days \in 60..2000
               /\ t \in {"backtest", "optimize_backtest"} => a.days \in 200..3000
               /\ t = "screen" => Len(a.symbols) <= 50
               /\ t = "optimize_backtest" =>
                     /\ Len(a.fast_values) <= 8 /\ StrictlyIncreasing(a.fast_values)
                     /\ \A k \in 1..Len(a.fast_values) : a.fast_values[k] \in 2..200
                     /\ Len(a.slow_values) <= 8 /\ StrictlyIncreasing(a.slow_values)
                     /\ \A k \in 1..Len(a.slow_values) : a.slow_values[k] \in 5..400
                     /\ a.split \in 500..900
                     /\ a.top_k \in 1..10

\* an optimize step every argument of which was out of bounds as written
C5_Witness ==
    /\ Validated
    /\ Len(plan) = 1 /\ plan[1].tool = "optimize_backtest"
    /\ Len(ArgsOf(RawSteps[1]).fast_values.l) > 8
    /\ Len(plan[1].args.fast_values) = 8
    /\ NumOf(ArgsOf(RawSteps[1]).split, 700) = 1000 /\ plan[1].args.split = 900
    /\ NumOf(ArgsOf(RawSteps[1]).top_k, 5) = 11 /\ plan[1].args.top_k = 10
    /\ NumOf(ArgsOf(RawSteps[1]).days, 1200) = 3001 /\ plan[1].args.days = 3000

\* C6: _validate_plan returns a plan for every input and never raises.
C6_NeverRaises == pc # "raised"

\* ------------------------------------------------------------------------
\* Properties of run_once
\* ------------------------------------------------------------------------
AfterExecute == {"auto", "reflect", "reflect_bt", "fallback", "assemble", "persist",
                 "markdown", "remember", "done"}
\* C7: in Execute every iteration that does not raise makes one tool call
\* and appends exactly one entry carrying the planned step, an error entry
\* exactly when the call returned a failure status, and moves to the next
\* step; an error entry leaves the artifacts as they were; when the loop ends
\* steps_executed holds one entry per validated step, in plan order.
C7_ExecuteRecords ==
    /\ [][ (pc = "execute" /\ pc' = "execute") =>
              /\ idx' = idx + 1
              /\ Len(executed') = Len(executed) + 1
              /\ SubSeq(executed', 1, Len(executed)) = executed
              /\ executed'[Len(executed')].step = plan[idx]
              /\ Len(calls') = Len(calls) + 1
              /\ calls'[Len(calls')].tool = plan[idx].tool
              /\ executed'[Len(executed')].kind =
                    (IF calls'[Len(calls')].k = "http" THEN "error" ELSE "result")
              /\ executed'[Len(executed')].kind = "error" => artifacts' = artifacts ]_vars
    /\ [][ (pc = "execute" /\ pc' = "auto") =>
              /\ Len(executed) = Len(plan)
              /\ \A i \in 1..Len(plan) : executed[i].step = plan[i] ]_vars
    /\ [](pc \in AfterExecute =>
              /\ Len(executed) >= Len(plan)
              /\ \A i \in 1..Len(plan) : executed[i].step = plan[i])

\* the first of three planned steps failed, the two after it were executed
C7_Witness ==
    /\ pc = "execute"
    /\ Len(plan) = 3 /\ idx = 4
    /\ executed[1].kind = "error" /\ calls[1].k = "http"
    /\ executed[2].kind = "result" /\ executed[3].kind = "result"
    /\ ~artifacts.screen.present

\* C8: a tool call that times out in Execute or Auto-analyze is recorded as
\* an error entry and the run goes on: run_once never raises because of it.
C8_TimeoutRecorded ==
    \A i \in 1..Len(calls) :
        calls[i].k = "exc" =>
            /\ pc # "raised"
            /\ Len(executed) >= i /\ executed[i].kind = "error"

\* the step the default plan validates to
DefaultScreenStep ==
    [tool |-> "screen",
     args |-> [symbols |-> [i \in 1..Min2(50, Len(universe)) |-> upper(universe[i])],
               days |-> Max2(60, Min2(runDays, 2000))]]

StructurallyInvalid(p) ==
    \/ p.kind # "object"
    \/ p.steps.k # "list"
    \/ \E i \in 1..Len(p.steps.l) : ~p.steps.l[i].obj

\* C10: when the planner returns parseable but structurally invalid output,
\* run_once substitutes the default single screen step and does not raise.
C10_InvalidPlanRecovered ==
    (llm.k = "json" /\ StructurallyInvalid(llm.v)) =>
        /\ failure \notin {"planner", "validate"}
        /\ Validated => (Len(plan) = 1 /\ plan[1].tool = "screen")
\* every tool call of the run so far returned a success status
AllCallsOk == \A i \in 1..Len(calls) : calls[i].k = "ok"

\* C11: a run in which every tool call succeeded and that holds an analysis
\* artifact holds at least one backtest when it reaches Assemble picks.
C11_BacktestCoverage ==
    (pc = "assemble" /\ AllCallsOk /\ artifacts.analysis # <<>>) =>
        artifacts.backtests # <<>>
\* the Auto-analyze loop is over
AutoOver == pc = "auto" /\ queue = <<>>

\* the tool calls made after the Execute loop
CallsAfterExecute == SubSeq(calls, Len(plan) + 1, Len(calls))

\* the rows of the screen artifact that are among its 3 highest confidences
\* however ties are broken, and those that are for some way of breaking them
SurelyTop3(rows) ==
    { i \in 1..Len(rows) :
        Cardinality({ j \in 1..Len(rows) : j # i /\ rows[j].confidence >= rows[i].confidence }) < 3 }
PossiblyTop3(rows) ==
    { i \in 1..Len(rows) :
        Cardinality({ j \in 1..Len(rows) : rows[j].confidence > rows[i].confidence }) < 3 }

\* the symbols analyzed by a planned step that succeeded
PlannedAnalyses ==
    { plan[i].args.symbol : i \in { j \in 1..Len(plan) :
                                      plan[j].tool = "analyze" /\ calls[j].k = "ok" } }

\* C12: when Auto-analyze is over and a screen artifact exists, each symbol
\* among the 3 highest confidences of the screen has an analysis artifact
\* or an analyze error entry; every call of the stage is an analyze of a
\* symbol that is among the top 3 and that no planned step had analyzed; at
\* most 3 calls are made, and none without a screen artifact.
C12_AutoAnalyze ==
    AutoOver =>
        LET rows == artifacts.screen.results
            auto == CallsAfterExecute
        IN /\ artifacts.screen.present =>
                \A i \in SurelyTop3(rows) :
                    \/ DictHas(artifacts.analysis, rows[i].symbol)
                    \/ \E e \in 1..Len(executed) :
                          executed[e] = ErrorEntry(AutoStep(rows[i].symbol))
           /\ \A c \in 1..Len(auto) :
                /\ auto[c].tool = "analyze"
                /\ auto[c].symbol \notin PlannedAnalyses
                /\ \E i \in PossiblyTop3(rows) : rows[i].symbol = auto[c].symbol
           /\ Len(auto) <= 3
           /\ ~artifacts.screen.present => auto = <<>>

\* a screen of 4 rows whose lowest row is another symbol: the stage analyzed
\* the top symbol and recorded nothing for the lowest
C12_Witness ==
    /\ AutoOver
    /\ Len(artifacts.screen.results) = 4
    /\ artifacts.screen.results[4].symbol = "MSFT"
    /\ artifacts.screen.results[3].confidence > artifacts.screen.results[4].confidence
    /\ Len(CallsAfterExecute) >= 1
    /\ DictHas(artifacts.analysis, "AAPL")
    /\ ~DictHas(artifacts.analysis, "MSFT")
\* the symbols of a sequence of rows or picks
SymbolsOf(rows) == { rows[i].symbol : i \in 1..Len(rows) }

\* C13: every pick of the persisted report has a confidence, at least 0.60;
\* the picks' symbols are among the symbols with an analysis artifact when
\* there is one, and otherwise among the top 3 screened symbols.
C13_PicksFiltered ==
    runJson.exists =>
        LET ps == runJson.picks
            art == runJson.artifacts
            rows == art.screen.results
        IN /\ \A i \in 1..Len(ps) : ps[i].known /\ ps[i].confidence >= 60
           /\ IF art.analysis # <<>>
              THEN SymbolsOf(ps) \subseteq { k : k \in SeqRange(DictKeys(art.analysis)) }
              ELSE /\ SymbolsOf(ps) \subseteq { rows[i].symbol : i \in PossiblyTop3(rows) }
                   /\ Len(ps) <= 3

\* a persisted report with a pick at exactly 0.60 and an analyzed symbol
\* below the threshold that is no pick
C13_Witness ==
    /\ runJson.exists
    /\ \E i \in 1..Len(runJson.picks) : runJson.picks[i].confidence = 60
    /\ \E k \in SeqRange(DictKeys(runJson.artifacts.analysis)) :
          /\ DictGet(runJson.artifacts.analysis, k).confidence = 55
          /\ k \notin SymbolsOf(runJson.picks)
\* C14: in the persisted report every entry of steps_executed carries a step
\* and either a result or an error; the entries are, in order, the tool
\* invocations the run made in any stage: an invocation that succeeded has
\* a result entry for its tool and symbol, one that failed an error entry.
C14_FullPicture ==
    runJson.exists =>
        LET es == runJson.steps_executed
        IN /\ Len(es) = Len(calls)
           /\ \A i \in 1..Len(es) :
                /\ es[i].kind \in {"result", "error"}
                /\ es[i].step.tool \in ALLOWED_TOOLS \cup {"reflect"}
                /\ es[i].kind = "result" <=> calls[i].k = "ok"
                /\ es[i].kind = "result" =>
                      /\ es[i].step.tool = calls[i].tool
                      /\ calls[i].tool # "screen" => es[i].step.args.symbol = calls[i].symbol

\* a persisted report of a run in which one call returned a failure status
\* and a later one timed out
C14_Witness ==
    /\ runJson.exists
    /\ \E i, j \in 1..Len(calls) :
          /\ i < j
          /\ calls[i].k = "http" /\ calls[j].k = "exc"
          /\ runJson.steps_executed[i].kind = "error"
          /\ runJson.steps_executed[j].kind = "error"
\* no backtest succeeded and no screen produced a row
Degraded ==
    /\ artifacts.backtests = <<>>
    /\ ~artifacts.screen.present \/ artifacts.screen.results = <<>>

\* C15: a run with zero successful backtests and zero screen results is not
\* ended by a failing tool call; when it is over the report is persisted
\* with empty picks and one entry per attempted call, and the record
\* appended to the memory has no top pick.
C15_DegradedRunPersists ==
    Degraded =>
        /\ ~(pc = "raised" /\ failure = "tool")
        /\ pc = "done" =>
              /\ runJson.exists
              /\ runJson.picks = <<>>
              /\ Len(runJson.steps_executed) = Len(calls)
              /\ memFile # <<>> /\ memFile[Len(memFile)].top_pick = ""
\* ------------------------------------------------------------------------
\* Properties of the Run Memory and of the persisted reports
\* ------------------------------------------------------------------------
IsPrefix(s, u) == Len(s) <= Len(u) /\ SubSeq(u, 1, Len(s)) = s

\* C16: the memory file changes only when a run completes, and then by
\* exactly one record put after the records it held, which stay as they
\* were and in their order; a run that completes appends one.
C16_AppendOnly ==
    [][ /\ memFile' # memFile =>
              /\ completed' = completed + 1
              /\ Len(memFile') = Len(memFile) + 1
              /\ IsPrefix(memFile, memFile')
        /\ completed' # completed =>
              /\ completed' = completed + 1
              /\ Len(memFile') = Len(memFile) + 1 ]_vars

\* three runs have completed on a memory that held a record before them
C16_Witness ==
    /\ completed = 3
    /\ Len(memFile) = 4
    /\ memFile[1].top_pick = "AAPL" /\ memFile[2].top_pick = ""
    /\ memFile[4].top_pick = "MSFT"
\* the dates under which a run.json lies
ReportDates == { d \in Dates : reportsDir[d] # 0 }

\* C17: when no run is in progress there are as many persisted run reports
\* as completed runs: every completed run has left a report of its own,
\* none was replaced by the report of a later run.
C17_OneReportPerRun ==
    pc \in {"idle", "done"} => Cardinality(ReportDates) = completed
\* C18: Memory.recent(n) returns the last min(n, k) records of a file of k
\* records, in append order; recent(0) returns none.
C18_RecentLastN ==
    readOut.op = "recent" =>
        LET k == Len(readOut.file)
            m == Min2(readOut.n, k)
        IN /\ Len(readOut.value) = m
           /\ readOut.value = SubSeq(readOut.file, k - m + 1, k)

\* the records of a file that name the symbol and carry two positive
\* parameters
GoodRecords(file, sym) ==
    { i \in 1..Len(file) :
        /\ file[i].top_pick = sym
        /\ file[i].best_params.k = "map"
        /\ file[i].best_params.fast.k = "int" /\ file[i].best_params.fast.n > 0
        /\ file[i].best_params.slow.k = "int" /\ file[i].best_params.slow.n > 0 }

\* C19: Memory.last_best_params(symbol) returns the parameters of the newest
\* record for the symbol whose parameters are both present and positive,
\* and nothing when there is no such record.
C19_LastBestPositive ==
    readOut.op = "last_best_params" =>
        LET good == GoodRecords(readOut.file, readOut.symbol)
        IN IF good = {} THEN ~readOut.value.found
           ELSE LET i == CHOOSE g \in good : \A h \in good : h <= g
                IN /\ readOut.value.found
                   /\ readOut.value.fast = readOut.file[i].best_params.fast.n
                   /\ readOut.value.slow = readOut.file[i].best_params.slow.n
\* the appends that are over
ClosedApps == { w \in AppIds : apps[w].pc = "closed" }

\* C20: when processes append to the memory at the same time, the file
\* holds a line of its own for the record of every append that is over,
\* and a read returns whole records only.
C20_AppendsSerialized ==
    /\ \E line \in [ClosedApps -> 1..Len(memFile)] :
          /\ \A w \in ClosedApps : memFile[line[w]] = apps[w].rec
          /\ \A v, w \in ClosedApps : v # w => line[v] # line[w]
    /\ readOut.op = "recent" =>
          \A i \in 1..Len(readOut.value) :
              readOut.value[i] \in AppendedRecords \cup {MemRecord("", NullParams)}
\* ------------------------------------------------------------------------
\* Properties of the signal engine
\* ------------------------------------------------------------------------
\* C28: the recommendation of MarketAgent.analyze is BUY when overall is
\* above 0.60, HOLD when it is above 0.40 and at most 0.60, SELL when it is
\* at most 0.40, and the confidence reported is overall.
C28_RecommendationThresholds ==
    (result.fn = "analyze" /\ result.k = "ok") =>
        /\ result.confidence = Overall(market[args.symbol])
        /\ result.recommendation = "BUY" <=> result.confidence > 6000
        /\ result.recommendation = "HOLD" <=>
              (result.confidence > 4000 /\ result.confidence <= 6000)
        /\ result.recommendation = "SELL" <=> result.confidence <= 4000
        /\ result.confidence = 6500 => result.recommendation = "BUY"
        /\ result.confidence = 5000 => result.recommendation = "HOLD"
        /\ result.confidence = 2500 => result.recommendation = "SELL"

\* an analysis whose overall is exactly 0.60 has been made
C28_Witness ==
    /\ result.fn = "analyze" /\ result.k = "ok"
    /\ result.confidence = 6000 /\ result.recommendation = "HOLD"

\* the symbols of a batch whose analysis fails
FailingSymbols(mkt, symbols) ==
    { i \in 1..Len(symbols) : mkt[symbols[i]].k = "nodata" }

\* C29: MarketAgent.screen returns, whatever symbol fails: it holds one
\* error entry for every failing symbol of the batch, one row for every
\* other symbol, and the rows are in descending order of confidence.
C29_BatchNeverAborted ==
    result.fn = "screen" =>
        /\ result.k = "ok"
        /\ Len(result.errors) = Cardinality(FailingSymbols(market, args.symbols))
        /\ Len(result.results) + Len(result.errors) = Len(args.symbols)
        /\ \A i \in 1..(Len(result.results) - 1) :
              result.results[i].confidence >= result.results[i + 1].confidence
\* ------------------------------------------------------------------------
\* Properties of the backtester
\* ------------------------------------------------------------------------
BacktestOk == result.fn = "backtest_sma_cross" /\ result.k = "ok"

\* C21: on a series of positive prices of at least max(fast, slow) + 5 bars
\* with fast < slow, backtest_sma_cross returns an equity of the length of
\* the series that starts at 1.0 and is strictly positive throughout.
C21_EquityShape ==
    (/\ result.fn = "backtest_sma_cross"
     /\ args.fast < args.slow
     /\ Len(series) >= Max2(args.fast, args.slow) + 5) =>
        /\ result.k = "ok"
        /\ Len(result.equity) = Len(series)
        /\ result.equity[1].num = result.equity[1].den
        /\ \A i \in 1..Len(series) : result.equity[i].num > 0 /\ result.equity[i].den > 0

\* the average of the window bars that end at bar t, times window
WindowSum(xs, t, window) == SumOf(xs, t - window + 1, t)

\* the fast average exceeded the slow average at bar t, both being defined
FastAboveSlow(xs, t, fast, slow) ==
    /\ fast >= 1 /\ t >= slow
    /\ WindowSum(xs, t, fast) * slow > WindowSum(xs, t, slow) * fast

\* C22: the position of period t is 1 exactly when the fast average
\* exceeded the slow average at period t - 1, and two series that agree
\* before t give the same position at t.
C22_NoLookAhead ==
    /\ [](BacktestOk =>
            \A t \in 1..Len(series) :
               result.signal[t] = 1 <=>
                  (t > 1 /\ FastAboveSlow(series, t - 1, args.fast, args.slow)))
    /\ [][(BacktestOk /\ BacktestOk') =>
            \A t \in 1..Len(series) :
               (\A i \in 1..(t - 1) : series[i] = series'[i]) =>
                   result.signal[t] = result'.signal[t]]_vars

\* a position is held over a bar at which the fast average is not above
\* the slow one
C22_Witness ==
    /\ BacktestOk
    /\ \E t \in 2..Len(series) :
          /\ result.signal[t] = 1
          /\ ~FastAboveSlow(series, t, args.fast, args.slow)
          /\ result.equity[t].num < result.equity[t].den
\* the invocations Reflect and Fallback made: the backtests and the
\* optimizations that follow the planned steps
LateCalls ==
    { i \in (Len(plan) + 1)..Len(calls) : calls[i].tool \in {"backtest", "optimize_backtest"} }

\* the pair Reflect reuses from the memory for the first candidate is one
\* that backtest_sma_cross refuses
ReusesRefusedPair ==
    /\ rmode = "b"
    /\ pc \in {"fallback", "assemble", "persist", "markdown", "remember"}
    /\ memFile # <<>>
    /\ LET top1 == pick_top_candidates(artifacts.screen, 1)
       IN /\ top1 # <<>>
          /\ LET reuse == last_best_params(memFile, top1[1])
             IN reuse.found /\ reuse.fast >= reuse.slow

\* C23: a backtest with fast >= slow, or over too short a series, fails
\* and gives no result; when that happens in Reflect or Fallback the
\* failure is an error entry of steps_executed, the run does not raise for
\* it, and the report that is persisted holds the entry.  (What the
\* function and the endpoint do alone does not depend on the state: it is
\* looked at where a run starts.)
C23_RefusedBacktestRecorded ==
    /\ pc = "plan" =>
          /\ \A n \in {6, 7} : \A f \in {1, 2} : \A s \in {1, 2} :
                (f >= s \/ n < Max2(f, s) + 5) =>
                    backtest_sma_cross([b \in 1..n |-> 1], f, s).k = "raise"
          /\ \A f \in {50, 200} : \A s \in {20, 200} :
                f >= s => \A o \in BacktestOutcomes("AAPL", f, s, 1000) : o.k # "ok"
    /\ \A i \in 1..Len(executed) :
          (executed[i].kind = "result" /\ executed[i].step.tool = "backtest") =>
              executed[i].step.args.fast < executed[i].step.args.slow
    /\ \A i \in LateCalls :
          (calls[i].tool = "backtest" /\ calls[i].k # "ok") =>
              /\ failure \in {"none", "persist"}
              /\ Len(executed) >= i /\ executed[i].kind = "error"
              /\ pc \in {"markdown", "remember", "done"} =>
                    /\ runJson.exists
                    /\ runJson.steps_executed[i].kind = "error"
    /\ ReusesRefusedPair =>
          \E i \in LateCalls :
              /\ calls[i].tool = "backtest" /\ calls[i].k # "ok"
              /\ executed[i] = ErrorEntry(ReflectErrorStep)

\* the report of a run whose Reflect reused a refused pair is persisted
C23_Witness ==
    /\ ReusesRefusedPair
    /\ pc = "markdown"
    /\ runJson.exists
    /\ \E i \in 1..Len(runJson.steps_executed) :
          runJson.steps_executed[i] = ErrorEntry(ReflectErrorStep)
\* ------------------------------------------------------------------------
\* Properties of the optimizer
\* ------------------------------------------------------------------------
OptimizeOk == result.fn = "optimize_sma_grid" /\ result.k = "ok"

\* C24: every entry of the leaderboard has fast < slow and enough bars,
\* max(fast, slow) + 5, in the in-sample and in the out-of-sample segment,
\* and the leaderboard has between 1 and top_k entries.
C24_LeaderboardValid ==
    OptimizeOk =>
        /\ Len(result.leaderboard) >= 1
        /\ Len(result.leaderboard) <= args.top_k
        /\ \A i \in 1..Len(result.leaderboard) :
              LET e == result.leaderboard[i]
              IN /\ e.fast < e.slow
                 /\ Max2(e.fast, e.slow) + 5 <= result.bars_is
                 /\ Max2(e.fast, e.slow) + 5 <= result.bars_os

\* three pairs qualify and the leaderboard keeps two of them
C24_Witness ==
    /\ OptimizeOk
    /\ args.top_k = 2 /\ Len(result.leaderboard) = 2
    /\ Len(series) = 1000 /\ args.split = 70
    /\ args.fast_values = <<20, 10, 10>> /\ args.slow_values = <<50, 20, 50>>

\* C25: best is an entry of the leaderboard, no entry has a greater
\* out-of-sample Sharpe, and every entry before it has a smaller one.
C25_BestOfLeaderboard ==
    OptimizeOk =>
        \E i \in 1..Len(result.leaderboard) :
            /\ result.leaderboard[i] = result.best
            /\ \A j \in 1..Len(result.leaderboard) :
                  result.leaderboard[j].OS <= result.best.OS
            /\ \A j \in 1..(i - 1) : result.leaderboard[j].OS < result.best.OS

\* two finalists tie on the out-of-sample Sharpe
C25_Witness ==
    /\ OptimizeOk
    /\ Len(result.leaderboard) = 2
    /\ result.leaderboard[1].OS = result.leaderboard[2].OS
    /\ result.best = result.leaderboard[1]

\* round(n * split), a tie going to the even number, clamped to [1, n - 1]
RoundedSplit(n, split) ==
    LET q == (n * split) \div 100
        r == (n * split) % 100
        rounded == IF r < 50 THEN q
                   ELSE IF r > 50 THEN q + 1
                   ELSE IF q % 2 = 0 THEN q ELSE q + 1
    IN Max2(1, Min2(n - 1, rounded))

\* C26: for a split in [0.5, 0.9] the in-sample segment has
\* round(n * split) bars, clamped to [1, n - 1], and the out-of-sample
\* segment the rest; 1000 bars at 0.7 split into 700 and 300.
C26_SplitRounded ==
    (OptimizeOk /\ args.split >= 50 /\ args.split <= 90) =>
        /\ result.bars_is = RoundedSplit(Len(series), args.split)
        /\ result.bars_os = Len(series) - RoundedSplit(Len(series), args.split)
        /\ (Len(series) = 1000 /\ args.split = 70) =>
              (result.bars_is = 700 /\ result.bars_os = 300)

\* C27: the in-sample segment is the first bars_is prices in their order,
\* the out-of-sample segment the prices after them in their order, their
\* lengths add up to bars_total, and neither is empty.
C27_ChronologicalPartition ==
    OptimizeOk =>
        /\ result.bars_total = Len(series)
        /\ result.bars_is + result.bars_os = result.bars_total
        /\ result.bars_is >= 1 /\ result.bars_os >= 1
        /\ result.is_prices \o result.os_prices = series
        /\ Len(result.is_prices) = result.bars_is
        /\ Len(result.os_prices) = result.bars_os

\* 261 bars cut at 0.7
C27_Witness ==
    /\ OptimizeOk
    /\ Len(series) = 261 /\ args.split = 70
    /\ result.bars_is = 182 /\ result.bars_os = 79
    /\ result.os_prices[1] = 183
\* ------------------------------------------------------------------------
\* Properties of Reflect
\* ------------------------------------------------------------------------
InReflectA == pc = "reflect" /\ rmode = "a"

\* C30: with an analysis, no backtest and some optimization at the end of
\* Auto-analyze, Reflect visits every optimized symbol once, in order; each
\* visit is one backtest call for that symbol and no other call; a call
\* that succeeds is recorded with the optimization's best pair over at
\* least 1000 periods and stored under the symbol, one that fails is
\* recorded as an error entry, and either way the stage goes on to the
\* next symbol.
C30_ReflectFromOptimizations ==
    /\ [][(pc = "auto" /\ pc' = "reflect") =>
            IF artifacts.analysis # <<>> /\ artifacts.backtests = <<>>
               /\ artifacts.optimizations # <<>>
            THEN rmode' = "a" /\ queue' = DictKeys(artifacts.optimizations)
            ELSE rmode' # "a"]_vars
    /\ [][(InReflectA /\ queue # <<>>) =>
            LET sym == Head(queue)
                best == DictGet(artifacts.optimizations, sym).best
                call == calls'[Len(calls')]
                entry == executed'[Len(executed')]
            IN /\ InReflectA' /\ queue' = Tail(queue)
               /\ Len(calls') = Len(calls) + 1
               /\ Len(executed') = Len(executed) + 1
               /\ call.tool = "backtest" /\ call.symbol = sym
               /\ artifacts'.optimizations = artifacts.optimizations
               /\ IF call.k = "ok"
                  THEN /\ entry.kind = "result"
                       /\ entry.step.tool = "backtest"
                       /\ entry.step.args.symbol = sym
                       /\ entry.step.args.fast = best.fast
                       /\ entry.step.args.slow = best.slow
                       /\ entry.step.args.days >= 1000
                       /\ entry.result.params = [fast |-> best.fast, slow |-> best.slow]
                       /\ DictHas(artifacts'.backtests, sym)
                       /\ DictGet(artifacts'.backtests, sym) = entry.result
                  ELSE /\ entry.kind = "error"
                       /\ entry.step.tool = "backtest"
                       /\ artifacts' = artifacts]_vars

\* Reflect is through two optimizations: the backtest of the first failed,
\* that of the second is stored
C30_Witness ==
    /\ InReflectA /\ queue = <<>>
    /\ Len(artifacts.optimizations) = 2
    /\ calls[Len(calls) - 1].tool = "backtest" /\ calls[Len(calls) - 1].k # "ok"
    /\ calls[Len(calls)].tool = "backtest" /\ calls[Len(calls)].k = "ok"
    /\ DictKeys(artifacts.backtests) = <<"MSFT">>

InReflectB == pc = "reflect" /\ rmode = "b"

\* the first screened row none beats on confidence
TopScreened(rows) ==
    rows[SetMin({ i \in 1..Len(rows) :
                    \A j \in 1..Len(rows) : rows[j].confidence <= rows[i].confidence })].symbol

\* C31: with an analysis and neither a backtest nor an optimization at the
\* end of Auto-analyze, Reflect works on the top screened symbol alone.
\* With a remembered pair for it, it makes one backtest call with exactly
\* that pair and no optimization.  Without one, it makes one optimization
\* call with fast [10, 20, 50], slow [100, 150, 200, 250], split 0.7 and
\* top_k 5 and, when that returns, one backtest call with the best pair of
\* the answer.  Nothing else is called in the stage.
C31_ReflectTopOne ==
    /\ [][(pc = "auto" /\ pc' = "reflect" /\ artifacts.analysis # <<>>
           /\ artifacts.backtests = <<>> /\ artifacts.optimizations = <<>>) =>
            /\ rmode' = "b"
            /\ queue' = IF artifacts.screen.results = <<>> THEN <<>>
                        ELSE <<TopScreened(artifacts.screen.results)>>]_vars
    /\ [][(InReflectB /\ queue # <<>>) =>
            LET sym == Head(queue)
                reuse == last_best_params(memFile, sym)
                call == calls'[Len(calls')]
                entry == executed'[Len(executed')]
            IN /\ Len(calls') = Len(calls) + 1
               /\ Len(executed') = Len(executed) + 1
               /\ IF reuse.found
                  THEN /\ call.tool = "backtest"
                       /\ call.payload.symbol = sym
                       /\ call.payload.fast = reuse.fast
                       /\ call.payload.slow = reuse.slow
                       /\ artifacts'.optimizations = <<>>
                       /\ InReflectB' /\ queue' = <<>>
                       /\ call.k = "ok" =>
                             /\ entry.kind = "result"
                             /\ entry.result.params = [fast |-> reuse.fast, slow |-> reuse.slow]
                             /\ DictKeys(artifacts'.backtests) = <<sym>>
                  ELSE /\ call.tool = "optimize_backtest"
                       /\ call.payload.symbol = sym
                       /\ call.payload.fast_values = <<10, 20, 50>>
                       /\ call.payload.slow_values = <<100, 150, 200, 250>>
                       /\ call.payload.split = 700
                       /\ call.payload.top_k = 5
                       /\ IF call.k = "ok"
                          THEN /\ pc' = "reflect_bt" /\ Head(queue') = sym
                               /\ entry.kind = "result"
                               /\ DictKeys(artifacts'.optimizations) = <<sym>>
                               /\ DictGet(artifacts'.optimizations, sym) = entry.result
                          ELSE /\ InReflectB' /\ queue' = <<>>
                               /\ entry.kind = "error"
                               /\ artifacts' = artifacts]_vars
    /\ [][pc = "reflect_bt" =>
            LET sym == Head(queue)
                best == DictGet(artifacts.optimizations, sym).best
                call == calls'[Len(calls')]
            IN /\ Len(calls') = Len(calls) + 1
               /\ call.tool = "backtest"
               /\ call.payload.symbol = sym
               /\ call.payload.fast = best.fast /\ call.payload.slow = best.slow
               /\ artifacts'.optimizations = artifacts.optimizations
               /\ InReflectB' /\ queue' = <<>>]_vars
    /\ [][(InReflectB /\ queue = <<>>) => (calls' = calls /\ executed' = executed)]_vars

\* Reflect is over after a default optimization of MSFT, the top screened
\* symbol, and a backtest with its best pair
C31_Witness ==
    /\ InReflectB /\ queue = <<>>
    /\ Len(calls) >= 2
    /\ calls[Len(calls) - 1].tool = "optimize_backtest" /\ calls[Len(calls) - 1].k = "ok"
    /\ calls[Len(calls)].tool = "backtest" /\ calls[Len(calls)].k = "ok"
    /\ calls[Len(calls)].symbol = "MSFT"
    /\ calls[Len(calls)].payload.fast = DictGet(artifacts.optimizations, "MSFT").best.fast
    /\ Len(artifacts.screen.results) > 1

\* ------------------------------------------------------------------------
\* Properties of Fallback, Persist and Remember
\* ------------------------------------------------------------------------
ScreenHasResults == artifacts.screen.present /\ artifacts.screen.results # <<>>

\* the run is past Fallback
PastFallback ==
    \/ pc \in {"assemble", "persist", "markdown", "remember", "done"}
    \/ pc = "raised" /\ failure = "persist"

\* C32: when Reflect leaves no backtest and the screen has a result,
\* Fallback makes exactly one backtest call, of the highest-confidence
\* screened symbol with fast 50 and slow 200 over at least 1000 periods, and
\* records it as a result or as an error entry; otherwise it calls nothing.
\* So a run that is past Fallback with no backtest although its screen had
\* results ends its steps_executed with a failed backtest of that symbol.
C32_FallbackBacktest ==
    /\ [][pc = "fallback" =>
            IF artifacts.backtests = <<>> /\ ScreenHasResults
            THEN LET sym == TopScreened(artifacts.screen.results)
                     call == calls'[Len(calls')]
                     entry == executed'[Len(executed')]
                 IN /\ Len(calls') = Len(calls) + 1
                    /\ Len(executed') = Len(executed) + 1
                    /\ call.tool = "backtest"
                    /\ call.payload.symbol = sym
                    /\ call.payload.fast = 50 /\ call.payload.slow = 200
                    /\ call.payload.days >= 1000
                    /\ entry.step.tool = "backtest" /\ entry.step.args.symbol = sym
                    /\ IF call.k = "ok"
                       THEN /\ entry.kind = "result"
                            /\ entry.step.args.fast = 50 /\ entry.step.args.slow = 200
                            /\ DictKeys(artifacts'.backtests) = <<sym>>
                            /\ DictGet(artifacts'.backtests, sym) = entry.result
                       ELSE entry.kind = "error" /\ artifacts' = artifacts
            ELSE calls' = calls /\ executed' = executed /\ artifacts' = artifacts]_vars
    /\ []((PastFallback /\ artifacts.backtests = <<>> /\ ScreenHasResults) =>
            /\ executed # <<>>
            /\ executed[Len(executed)].kind = "error"
            /\ executed[Len(executed)].step.tool = "backtest"
            /\ executed[Len(executed)].step.args.symbol = TopScreened(artifacts.screen.results)
            /\ calls[Len(calls)].tool = "backtest" /\ calls[Len(calls)].k # "ok")

\* a finished run with a screen of several rows and no backtest: the
\* default optimization of Reflect failed, then the Fallback backtest
C32_Witness ==
    /\ pc = "done"
    /\ artifacts.backtests = <<>>
    /\ Len(artifacts.screen.results) > 1
    /\ calls[Len(calls)].tool = "backtest" /\ calls[Len(calls)].k = "exc"
    /\ calls[Len(calls)].payload.fast = 50 /\ calls[Len(calls)].payload.slow = 200
    /\ calls[Len(calls) - 1].tool = "optimize_backtest"
    /\ executed[Len(executed)].kind = "error"

\* what Run Memory may hold before the run
MemoryBefore == MemFiles \cup {StaleMemFile}

\* C33: Run Memory changes only by the append of Remember, which comes
\* after run.json of this run has been written with the run's steps; a run
\* whose report cannot be written raises, stops there, and leaves Run
\* Memory as it was before the run.
C33_PersistBeforeRemember ==
    /\ [][memFile' # memFile =>
            /\ pc = "remember"
            /\ runJson.exists /\ runJson.steps_executed = executed /\ runJson.picks = picks
            /\ reportsDir[dpath] = runNo
            /\ Len(memFile') = Len(memFile) + 1
            /\ SubSeq(memFile', 1, Len(memFile)) = memFile]_vars
    /\ [][(pc = "persist" /\ runJson' = runJson) =>
            (pc' = "raised" /\ failure' = "persist" /\ memFile' = memFile)]_vars
    /\ [][pc = "raised" => UNCHANGED vars]_vars
    /\ [](pc # "done" => memFile \in MemoryBefore)
    /\ [](pc = "done" => runJson.exists)

\* the report of a run with executed steps could not be written; the
\* memory still holds the one record it had
C33_Witness ==
    /\ pc = "raised" /\ failure = "persist"
    /\ ~runJson.exists
    /\ executed # <<>>
    /\ Len(memFile) = 1

\* the record the run appended
LastRecord == memFile[Len(memFile)]

\* C34: the record appended by a completed run names the pick of highest
\* confidence among the run's picks, with its confidence, and carries the
\* best pair of that symbol's optimization exactly when there is one; with
\* no picks the three are null.
C34_TopPickHighest ==
    pc = "done" =>
        IF picks = <<>>
        THEN /\ LastRecord.top_pick = "" /\ LastRecord.top_conf = -1
             /\ LastRecord.best_params.k = "null"
        ELSE /\ \E i \in 1..Len(picks) :
                   /\ picks[i].symbol = LastRecord.top_pick
                   /\ picks[i].confidence = LastRecord.top_conf
             /\ \A i \in 1..Len(picks) : picks[i].confidence <= LastRecord.top_conf
             /\ LastRecord.best_params.k = "map" <=>
                   DictHas(artifacts.optimizations, LastRecord.top_pick)
             /\ LastRecord.best_params.k = "map" =>
                   LET b == DictGet(artifacts.optimizations, LastRecord.top_pick).best
                   IN /\ LastRecord.best_params.fast.n = b.fast
                      /\ LastRecord.best_params.slow.n = b.slow

\* ------------------------------------------------------------------------
\* More properties of the optimizer and the backtester
\* ------------------------------------------------------------------------
\* the pairs of the grids that have fast < slow and enough bars in both
\* segments
ValidPairs ==
    { p \in SeqRange(args.fast_values) \X SeqRange(args.slow_values) :
        /\ p[1] < p[2] /\ p[1] > 0
        /\ Max2(p[1], p[2]) + 5 <= result.bars_is
        /\ Max2(p[1], p[2]) + 5 <= result.bars_os }

\* p is met before q by the two loops: fast ascending, then slow ascending
Earlier(p, q) == p[1] < q[1] \/ (p[1] = q[1] /\ p[2] < q[2])

PairOf(row) == <<row.fast, row.slow>>
LeaderPairs == { PairOf(result.leaderboard[i]) : i \in 1..Len(result.leaderboard) }

\* C35: the leaderboard holds min(top_k, number of valid pairs) distinct
\* valid pairs with their in-sample Sharpe, in non-increasing order of it,
\* pairs of equal in-sample Sharpe in encounter order (fast ascending, then
\* slow ascending); no valid pair left out has a greater in-sample Sharpe
\* than a pair in it, nor an equal one while being met earlier.
C35_TopKByInSample ==
    OptimizeOk =>
        LET lb == result.leaderboard
        IN /\ Len(lb) = Min2(args.top_k, Cardinality(ValidPairs))
           /\ Cardinality(LeaderPairs) = Len(lb)
           /\ \A i \in 1..Len(lb) :
                 /\ PairOf(lb[i]) \in ValidPairs
                 /\ lb[i].IS = market[PairOf(lb[i])].IS
           /\ \A i \in 1..Len(lb) : \A j \in (i + 1)..Len(lb) :
                 /\ lb[i].IS >= lb[j].IS
                 /\ lb[i].IS = lb[j].IS => Earlier(PairOf(lb[i]), PairOf(lb[j]))
           /\ \A p \in ValidPairs \ LeaderPairs : \A i \in 1..Len(lb) :
                 /\ market[p].IS <= lb[i].IS
                 /\ market[p].IS = lb[i].IS => Earlier(PairOf(lb[i]), p)

\* three valid pairs tie in-sample and two are kept: the first two met
C35_Witness ==
    /\ OptimizeOk
    /\ Cardinality(ValidPairs) = 3 /\ args.top_k = 2
    /\ args.fast_values = <<20, 10, 10>>
    /\ \A p \in ValidPairs : market[p].IS = 1
    /\ PairOf(result.leaderboard[1]) = <<10, 20>>
    /\ PairOf(result.leaderboard[2]) = <<10, 50>>

\* ------------------------------------------------------------------------
\* _validate_plan applied to its own output
\* ------------------------------------------------------------------------
\* a validated step as the raw step it is when the plan is validated again:
\* a string is a string, an integer an integer, a list a list
AsRaw(step) ==
    LET a == step.args
        ints(xs) == [k |-> "list", l |-> [i \in 1..Len(xs) |-> [k |-> "int", n |-> xs[i]]]]
        int(n) == [k |-> "int", n |-> n]
        str(t) == [k |-> "str", s |-> t]
    IN CASE step.tool = "screen" ->
              RawStep("screen", ScreenArgs([k |-> "list", l |-> a.symbols], int(a.days)))
         [] step.tool = "analyze" ->
              RawStep("analyze", AnalyzeArgs(str(a.symbol), int(a.days)))
         [] step.tool = "backtest" ->
              RawStep("backtest", BacktestArgs(str(a.symbol), int(a.fast), int(a.slow), int(a.days)))
         [] step.tool = "optimize_backtest" ->
              RawStep("optimize_backtest",
                      OptimizeArgs(str(a.symbol), int(a.days), ints(a.fast_values),
                                   ints(a.slow_values), int(a.split), int(a.top_k)))

Revalidated == ValidatePlan(PlanOf([i \in 1..Len(plan) |-> AsRaw(plan[i])]))

\* C36: validating a validated plan again returns the same steps in the
\* same order.
C36_Idempotent ==
    Validated => (~Revalidated.raised /\ Revalidated.steps = plan)

\* ------------------------------------------------------------------------
\* The stages of run_once as a whole
\* ------------------------------------------------------------------------
\* Execute is over and a backtest step of the plan returned a result
PlannedBacktestSucceeded ==
    /\ pc \in AfterExecute
    /\ \E j \in 1..Len(plan) : plan[j].tool = "backtest" /\ calls[j].k = "ok"

\* C37: after a planned backtest succeeded in Execute, Reflect is entered
\* with nothing to do, no step of Reflect or Fallback makes a tool call,
\* adds an entry to steps_executed or touches the artifacts, and the only
\* calls of the run after Execute are those of Auto-analyze.
C37_PlannedBacktestSuffices ==
    /\ [][(pc = "auto" /\ pc' = "reflect" /\ PlannedBacktestSucceeded) =>
            (rmode' = "none" /\ queue' = <<>>)]_vars
    /\ [][(pc \in {"reflect", "reflect_bt", "fallback"} /\ PlannedBacktestSucceeded) =>
            /\ calls' = calls
            /\ executed' = executed
            /\ artifacts' = artifacts]_vars
    /\ [](PlannedBacktestSucceeded =>
            /\ artifacts.backtests # <<>>
            /\ \A i \in (Len(plan) + 1)..Len(calls) : calls[i].tool = "analyze"
            /\ \A i \in (Len(plan) + 1)..Len(executed) : executed[i].step.tool = "analyze")

\* a finished run whose plan screened, analyzed and backtested: nothing was
\* called after the plan
C37_Witness ==
    /\ pc = "done"
    /\ PlannedBacktestSucceeded
    /\ artifacts.screen.present /\ artifacts.screen.results # <<>>
    /\ artifacts.analysis # <<>>
    /\ Len(calls) = Len(plan) /\ Len(executed) = Len(plan)
    /\ DictKeys(artifacts.backtests) = <<"AAPL">>

\* every tool call so far returned a result or a failure status
AllReturned == \A i \in 1..Len(calls) : calls[i].k \in {"ok", "http"}

\* the stages in the order run_once goes through them
StageRank(p) ==
    CASE p \in {"plan", "validate"} -> 0
      [] p = "execute" -> 1
      [] p = "auto" -> 2
      [] p \in {"reflect", "reflect_bt"} -> 3
      [] p = "fallback" -> 4
      [] p = "assemble" -> 5
      [] p = "persist" -> 6
      [] p = "markdown" -> 7
      [] p = "remember" -> 8
      [] OTHER -> 9

\* the auto-analyze calls: the analyses after the planned steps
AutoCalls == { i \in (Len(plan) + 1)..Len(calls) : calls[i].tool = "analyze" }

\* the calls are bounded, stage by stage
CallsBounded ==
    /\ Len(plan) <= 6
    /\ pc = "execute" => Len(calls) <= Len(plan)
    /\ Cardinality(AutoCalls) <= 3
    /\ Cardinality(LateCalls) <= 5 + 1
    /\ Len(calls) <= 15

\* a step makes at most one call, never goes back to an earlier stage, and
\* after a call that failed moves on to the next step, symbol or stage
StagesInOrder ==
    /\ Len(calls') <= Len(calls) + 1
    /\ StageRank(pc') >= StageRank(pc)
    /\ (pc = "fallback" /\ pc' # "fallback") => Cardinality(LateCalls') <= 5 + 1
    /\ (Len(calls') > Len(calls) /\ calls'[Len(calls')].k = "http") =>
          CASE pc = "execute" -> idx' = idx + 1
            [] pc \in {"auto", "reflect", "reflect_bt"} -> queue' = Tail(queue)
            [] OTHER -> StageRank(pc') > StageRank(pc)

\* C38: when every tool call returns a result or a tool error, the run gets
\* to Persist (it raises nowhere before), makes at most 15 tool calls (6
\* planned, 3 auto-analyze, 5 in Reflect, 1 in Fallback), goes through its
\* stages in order, each at most once, and retries no failed call.
C38_BoundedRun ==
    /\ []((AllReturned /\ pc = "raised") => failure = "persist")
    /\ [](AllReturned => CallsBounded)
    /\ [][AllReturned' => StagesInOrder]_vars

\* ------------------------------------------------------------------------
\* Reuse of remembered parameters from run to run
\* ------------------------------------------------------------------------
\* record i of the memory names AAPL and carries two parameters
HasPairFor(i) ==
    /\ memFile[i].top_pick = "AAPL"
    /\ memFile[i].best_params.k = "map"
    /\ memFile[i].best_params.fast.k = "int"
    /\ memFile[i].best_params.slow.k = "int"

\* the 50 most recent records
Window == { i \in 1..Len(memFile) : i > Len(memFile) - 50 }

\* the run reused a remembered pair: its first call after the analyses is
\* the backtest of Reflect
Reused == pc \in {"assemble", "persist", "markdown", "remember"} /\ calls[1].tool = "backtest"

\* C39: last_best_params finds a pair for a symbol only if one of the 50
\* most recent records names the symbol with both parameters; a run that
\* reuses a remembered pair appends a record with null parameters; so once
\* the 50 most recent records carry no parameters for the symbol, the next
\* Reflect (b) runs the default optimization although an older record
\* holds a pair.
C39_ReuseWindow ==
    /\ [](last_best_params(memFile, "AAPL").found => \E i \in Window : HasPairFor(i))
    /\ [][(Reused /\ memFile' # memFile) =>
            memFile'[Len(memFile')].best_params.k = "null"]_vars
    /\ [][(pc = "plan" /\ pc' = "assemble") =>
            IF \E i \in Window : HasPairFor(i)
            THEN /\ calls'[1].tool = "backtest"
                 /\ \E i \in Window :
                       /\ HasPairFor(i)
                       /\ calls'[1].payload.fast = memFile[i].best_params.fast.n
                       /\ calls'[1].payload.slow = memFile[i].best_params.slow.n
                 /\ artifacts'.optimizations = <<>>
            ELSE calls'[1].tool = "optimize_backtest"]_vars

\* the first record holds a pair for AAPL, the 50 runs after it reused it
\* and recorded none, and the run after those optimized again
C39_Witness ==
    /\ pc = "assemble"
    /\ Len(memFile) = 51
    /\ HasPairFor(1)
    /\ \A i \in 2..51 : memFile[i].top_pick = "AAPL" /\ memFile[i].best_params.k = "null"
    /\ calls[1].tool = "optimize_backtest"

\* ------------------------------------------------------------------------
\* The warm-up of the backtester
\* ------------------------------------------------------------------------
\* C40: in a result of backtest_sma_cross the position is 0 at each of the
\* first slow periods, so the strategy return is 0 and the equity 1.0 there.
C40_WarmUpFlat ==
    BacktestOk =>
        \A i \in 1..Min2(args.slow, Len(series)) :
            /\ result.signal[i] = 0
            /\ result.returns[i].num = 0
            /\ result.equity[i].num = result.equity[i].den

\* the price rose at the second bar, the last of the warm-up of a 1/2
\* cross, and the position is taken at the third
C40_Witness ==
    /\ BacktestOk
    /\ args.fast = 1 /\ args.slow = 2
    /\ series[2] > series[1] /\ series[3] # series[2]
    /\ result.signal[3] = 1
    /\ result.equity[3].num # result.equity[3].den
====
